---- MODULE Spec2Model ----
(***************************************************************************)
(* Risk scoring and pricing engine of ConsignP2P-QITech.                   *)
(*                                                                         *)
(* Three specifications share this module:                                 *)
(*   SpecRegistry  threads calling the lazily loading getters of           *)
(*                 risk/services/registry.py (_Registry)                   *)
(*   Spec          one HTTP request handled by the engine: either a        *)
(*                 simulation (consign_app/api/views.py,                   *)
(*                 borrower_create_simulation, which builds the features   *)
(*                 from the upstream endpoints, posts them to /risk/score  *)
(*                 and evaluates eligibility) or a direct POST to          *)
(*                 /risk/score (risk/views.py, score_view)                 *)
(* The variables a specification does not use keep their initial value.    *)
(***************************************************************************)
EXTENDS Integers, Sequences, FiniteSets, TLC

VARIABLES
    \* ---- registry (risk/services/registry.py)
    rpc,        \* thread -> position inside the getter it is running
    rres,       \* thread -> resource whose getter it is running
    lock,       \* _Registry._lock: 0 when free, else the holding thread
    slot,       \* resource -> cached object (0 is None)
    loaded,     \* thread -> object its load returned, not yet stored
    loadsOk,    \* resource -> number of loads that returned an object
    loadsFailed,\* resource -> number of loads that raised
    got,        \* thread -> <<resource, object>> its last returned call returned
    raisedTo,   \* thread -> TRUE when its last call ended with the load's error
    ncalls,     \* number of getter calls started so far
    \* ---- one request (consign_app/api/views.py, risk/views.py)
    kind,       \* "simulation" (borrower_create_simulation) or "score" (score_view)
    req,        \* the request's payload
    scConf,     \* the scorecard configuration, once get_scorecard has loaded it
    caps,       \* the pricing caps, once get_pricing has loaded them
    pc,         \* position of the request's thread
    stages,     \* the stages of the request run so far, in order
    calls,      \* upstream requests issued by build_features_for_borrower
    up,         \* what the upstream answers said, and the loop positions
    exc,        \* exception build_features_for_borrower ended with
    features,   \* the vector build_features_for_borrower returned
    sv,         \* locals of score_view
    risk,       \* response of /risk/score
    offers,     \* number of LoanOffer rows created
    elig,       \* result of analyze_eligibility
    resp,       \* the response of the request
    \* ---- one application of a calculator to given inputs
    fn,         \* the function applied
    arg,        \* its inputs
    out,        \* what it returned or raised
    applied,    \* TRUE once it has been applied
    \* ---- the offers of the marketplace (frontend/views.py)
    offerStatus,\* offer -> LoanOffer.status
    lastCall    \* the last api_register_offer request and its response

regVars == <<rpc, rres, lock, slot, loaded, loadsOk, loadsFailed, got, raisedTo, ncalls>>
cfgVars == <<kind, req>>
fbVars == <<calls, up, exc, features>>
reqVars == <<cfgVars, scConf, caps, pc, stages, fbVars, sv, risk, offers, elig, resp>>

calcVars == <<fn, arg, out, applied>>

dbVars == <<offerStatus, lastCall>>

vars == <<regVars, reqVars, calcVars, dbVars>>

(***************************************************************************)
(* Bounds                                                                  *)
(***************************************************************************)
NumThreads == 2
MaxCalls == 3
MaxLoadFailures == 1
MaxAccounts == 2
MaxCards == 1
MaxBills == 2
MaxContracts == 2

(***************************************************************************)
(* _Registry: get_pd_model, get_scorecard, get_pricing                     *)
(***************************************************************************)
Threads == 1..NumThreads
Resources == {"pd_model", "scorecard", "pricing"}
None == 0

NoReturn == <<"none", None>>

\* the outer test `if self._x is None` made without the lock
SlotEmpty(r) == slot[r] = None

\* the inner test `if self._x is None` made while holding the lock
SlotEmptyLockedUnchecked(r) == TRUE
SlotEmptyLocked(r) == slot[r] = None

\* the owner of the lock once an exception has left `with self._lock:`
\* (Lock.__exit__ releases it on every exit of the block)
LockAfterRaiseHeld(t) == t
LockAfterRaise(t) == None

RegistryInit ==
    /\ rpc = [t \in Threads |-> "idle"]
    /\ rres = [t \in Threads |-> "pd_model"]
    /\ lock = 0
    /\ slot = [r \in Resources |-> None]
    /\ loaded = [t \in Threads |-> None]
    /\ loadsOk = [r \in Resources |-> 0]
    /\ loadsFailed = [r \in Resources |-> 0]
    /\ got = [t \in Threads |-> NoReturn]
    /\ raisedTo = [t \in Threads |-> FALSE]
    /\ ncalls = 0

\* a request thread enters one of the three getters
GetterCall(t, r) ==
    /\ rpc[t] = "idle"
    /\ ncalls < MaxCalls
    /\ ncalls' = ncalls + 1
    /\ rpc' = [rpc EXCEPT ![t] = "check1"]
    /\ rres' = [rres EXCEPT ![t] = r]
    /\ got' = [got EXCEPT ![t] = NoReturn]
    /\ raisedTo' = [raisedTo EXCEPT ![t] = FALSE]
    /\ UNCHANGED <<lock, slot, loaded, loadsOk, loadsFailed>>
    /\ UNCHANGED <<reqVars, calcVars, dbVars>>

\* `if self._x is None:` outside the lock
GetterCheck1(t) ==
    /\ rpc[t] = "check1"
    /\ rpc' = [rpc EXCEPT ![t] = IF SlotEmpty(rres[t]) THEN "acquire" ELSE "return"]
    /\ UNCHANGED <<rres, lock, slot, loaded, loadsOk, loadsFailed, got, raisedTo, ncalls>>
    /\ UNCHANGED <<reqVars, calcVars, dbVars>>

\* `with self._lock:` entry
GetterAcquire(t) ==
    /\ rpc[t] = "acquire"
    /\ lock = 0
    /\ lock' = t
    /\ rpc' = [rpc EXCEPT ![t] = "check2"]
    /\ UNCHANGED <<rres, slot, loaded, loadsOk, loadsFailed, got, raisedTo, ncalls>>
    /\ UNCHANGED <<reqVars, calcVars, dbVars>>

\* `if self._x is None:` inside the lock
GetterCheck2(t) ==
    /\ rpc[t] = "check2"
    /\ rpc' = [rpc EXCEPT ![t] = IF SlotEmptyLocked(rres[t]) THEN "load" ELSE "release"]
    /\ UNCHANGED <<rres, lock, slot, loaded, loadsOk, loadsFailed, got, raisedTo, ncalls>>
    /\ UNCHANGED <<reqVars, calcVars, dbVars>>

\* load(path) / yaml.safe_load + Scorecard(conf) / _PricingWrapper(...) returns
GetterLoadOk(t) ==
    /\ rpc[t] = "load"
    /\ loadsOk' = [loadsOk EXCEPT ![rres[t]] = @ + 1]
    /\ loaded' = [loaded EXCEPT ![t] = loadsOk[rres[t]] + 1]
    /\ rpc' = [rpc EXCEPT ![t] = "store"]
    /\ UNCHANGED <<rres, lock, slot, loadsFailed, got, raisedTo, ncalls>>
    /\ UNCHANGED <<reqVars, calcVars, dbVars>>

\* the load raises (file missing or unreadable): the with block releases the
\* lock and the error reaches the caller, the slot is not assigned
GetterLoadRaise(t) ==
    /\ rpc[t] = "load"
    /\ loadsFailed[rres[t]] < MaxLoadFailures
    /\ loadsFailed' = [loadsFailed EXCEPT ![rres[t]] = @ + 1]
    /\ lock' = LockAfterRaise(t)
    /\ raisedTo' = [raisedTo EXCEPT ![t] = TRUE]
    /\ rpc' = [rpc EXCEPT ![t] = "idle"]
    /\ UNCHANGED <<rres, slot, loaded, loadsOk, got, ncalls>>
    /\ UNCHANGED <<reqVars, calcVars, dbVars>>

\* `self._x = <loaded object>`
GetterStore(t) ==
    /\ rpc[t] = "store"
    /\ slot' = [slot EXCEPT ![rres[t]] = loaded[t]]
    /\ loaded' = [loaded EXCEPT ![t] = None]
    /\ rpc' = [rpc EXCEPT ![t] = "release"]
    /\ UNCHANGED <<rres, lock, loadsOk, loadsFailed, got, raisedTo, ncalls>>
    /\ UNCHANGED <<reqVars, calcVars, dbVars>>

\* leaving the with block
GetterRelease(t) ==
    /\ rpc[t] = "release"
    /\ lock = t
    /\ lock' = 0
    /\ rpc' = [rpc EXCEPT ![t] = "return"]
    /\ UNCHANGED <<rres, slot, loaded, loadsOk, loadsFailed, got, raisedTo, ncalls>>
    /\ UNCHANGED <<reqVars, calcVars, dbVars>>

\* `return self._x`
GetterReturn(t) ==
    /\ rpc[t] = "return"
    /\ got' = [got EXCEPT ![t] = <<rres[t], slot[rres[t]]>>]
    /\ rpc' = [rpc EXCEPT ![t] = "idle"]
    /\ UNCHANGED <<rres, lock, slot, loaded, loadsOk, loadsFailed, raisedTo, ncalls>>
    /\ UNCHANGED <<reqVars, calcVars, dbVars>>

RegistryNext ==
    \/ \E t \in Threads, r \in Resources : GetterCall(t, r)
    \/ \E t \in Threads : GetterCheck1(t)
    \/ \E t \in Threads : GetterAcquire(t)
    \/ \E t \in Threads : GetterCheck2(t)
    \/ \E t \in Threads : GetterLoadOk(t)
    \/ \E t \in Threads : GetterLoadRaise(t)
    \/ \E t \in Threads : GetterStore(t)
    \/ \E t \in Threads : GetterRelease(t)
    \/ \E t \in Threads : GetterReturn(t)



(***************************************************************************)
(* C3: for every resource none of whose loads raised, the load ran at     *)
(* most once, and every call of its getter that has returned got the one   *)
(* object that load produced (never None, never a second object).          *)
(***************************************************************************)
C3_AtMostOneLoad ==
    \A r \in Resources :
        loadsFailed[r] = 0 =>
            /\ loadsOk[r] <= 1
            /\ \A t \in Threads :
                got[t][1] = r => (got[t][2] = 1 /\ loadsOk[r] = 1)

\* two threads raced through the outer test of the same getter: one loaded,
\* stored and returned, the other holds the lock and is about to make the
\* inner test on the slot that is already filled
C3_Witness ==
    \E r \in Resources : \E t1, t2 \in Threads :
        /\ t1 # t2
        /\ loadsFailed[r] = 0
        /\ loadsOk[r] = 1
        /\ got[t1] = <<r, 1>>
        /\ rpc[t2] = "check2" /\ rres[t2] = r /\ lock = t2
        /\ slot[r] = 1

(***************************************************************************)
(* Scorecard (risk/odds.py)                                                *)
(*                                                                         *)
(* The scorecard reads a probability only through                          *)
(*     _k * ln(pd_to_odds(pd) / O0),   _k = PDO / ln 2,                     *)
(* a strictly decreasing function of pd. A probability strictly between 0  *)
(* and 1 is carried as that quantity in half score points (Pd(x), x an     *)
(* integer: the larger x, the smaller pd); the probabilities 0 and 1,      *)
(* where the quantity does not exist, are PdZero and PdOne.                *)
(* A configuration is [S0, pd_floor, pd_ceiling, score_min, score_max,     *)
(* bands], pd_floor and pd_ceiling carried the same way.                   *)
(***************************************************************************)
Bands == {"A", "B", "C", "D", "E"}

DefaultScoreMin == 0
DefaultScoreMax == 1000

Max2(a, b) == IF a >= b THEN a ELSE b
Min2(a, b) == IF a <= b THEN a ELSE b

PdZero == [k |-> "zero", x |-> 0]
PdOne == [k |-> "one", x |-> 0]
Pd(x) == [k |-> "mid", x |-> x]

\* pd1 <= pd2 on carried probabilities
PdLeq(p1, p2) ==
    CASE p1.k = "zero" -> TRUE
      [] p2.k = "one" -> TRUE
      [] p2.k = "zero" -> FALSE
      [] p1.k = "one" -> FALSE
      [] OTHER -> p1.x >= p2.x

\* max(self.pd_floor, min(self.pd_ceiling, float(pd)))
pd_clip_unclipped(conf, pd) == pd
pd_clip(conf, pd) ==
    LET lo == IF PdLeq(conf.pd_ceiling, pd) THEN conf.pd_ceiling ELSE pd
    IN  IF PdLeq(lo, conf.pd_floor) THEN conf.pd_floor ELSE lo

\* (1.0 - pd) / pd raises ZeroDivisionError at pd = 0; math.log(odds / O0)
\* raises ValueError at odds = 0, that is at pd = 1
LogOddsRaises(pd) ==
    CASE pd.k = "zero" -> "ZeroDivisionError"
      [] pd.k = "one" -> "ValueError"
      [] OTHER -> "none"

\* round() of Python 3 on a value given in halves: ties go to the even integer
RoundHalfEven(h) ==
    IF h % 2 = 0 THEN h \div 2
    ELSE LET lo == (h - 1) \div 2
         IN  IF lo % 2 = 0 THEN lo ELSE lo + 1

\* variant whose clamp sends a score above score_max to score_min
ScoreClampWrapping(conf, h) ==
    IF h > 2 * conf.score_max THEN 2 * conf.score_min ELSE Max2(2 * conf.score_min, h)
\* max(self.score_min, min(self.score_max, score)), on halves
ScoreClamp(conf, h) == Max2(2 * conf.score_min, Min2(2 * conf.score_max, h))

\* pd_to_score; the clipped probability is strictly inside (0, 1)
pd_to_score(conf, pd) ==
    LET pd_c == pd_clip(conf, pd)
    IN  IF LogOddsRaises(pd_c) # "none"
        THEN [raised |-> LogOddsRaises(pd_c), score |-> 0]
        ELSE [raised |-> "none",
              score |-> RoundHalfEven(ScoreClamp(conf, 2 * conf.S0 + pd_c.x))]

\* variant that is one score point off
score_to_pd_shifted(conf, score) ==
    pd_clip(conf, Pd(2 * (Max2(conf.score_min, Min2(conf.score_max, score)) - conf.S0) + 2))
\* score_to_pd: s = max(score_min, min(score_max, int(score)));
\* odds = O0 * exp((s - S0) / _k), so _k * ln(odds / O0) = s - S0;
\* pd_clip(odds_to_pd(odds))
score_to_pd(conf, score) ==
    pd_clip(conf, Pd(2 * (Max2(conf.score_min, Min2(conf.score_max, score)) - conf.S0)))

RECURSIVE BandsSortedAscending(_, _)
\* variant sorted without reverse=True
BandsSortedAscending(bands, rest) ==
    IF rest = {} THEN <<>>
    ELSE LET b == CHOOSE x \in rest : \A y \in rest : bands[y] >= bands[x]
         IN  <<b>> \o BandsSortedAscending(bands, rest \ {b})
RECURSIVE BandsSorted(_, _)
\* _bands_sorted: the bands of rest by decreasing min (lines 20-22)
BandsSorted(bands, rest) ==
    IF rest = {} THEN <<>>
    ELSE LET b == CHOOSE x \in rest : \A y \in rest : bands[y] <= bands[x]
         IN  <<b>> \o BandsSorted(bands, rest \ {b})

RECURSIVE FirstBand(_, _, _, _)
\* the loop of band_of over _bands_sorted, from entry i
FirstBand(bands, sorted, i, score) ==
    IF i > Len(sorted) THEN "E"
    ELSE IF score >= bands[sorted[i]] THEN sorted[i]
    ELSE FirstBand(bands, sorted, i + 1, score)

\* band_of: the bands by decreasing min, the first whose min <= score, else "E"
band_of(conf, score) ==
    FirstBand(conf.bands, BandsSorted(conf.bands, DOMAIN conf.bands), 1, score)

\* score_and_band
score_and_band(conf, pd) ==
    LET s == pd_to_score(conf, pd)
    IN  IF s.raised # "none" THEN [raised |-> s.raised, score |-> 0, band |-> "E"]
        ELSE [raised |-> "none", score |-> s.score, band |-> band_of(conf, s.score)]

\* mlops/conf/scoring.yaml is read at run time; the configurations tried
ScorecardConfs ==
    { [S0 |-> 600, pd_floor |-> Pd(133), pd_ceiling |-> Pd(-249),
       score_min |-> DefaultScoreMin, score_max |-> DefaultScoreMax,
       bands |-> [A |-> 650, B |-> 620, C |-> 580, D |-> 520, E |-> 0]],
      [S0 |-> 600, pd_floor |-> Pd(133), pd_ceiling |-> Pd(-249),
       score_min |-> 500, score_max |-> 650,
       bands |-> [A |-> 640, B |-> 600, C |-> 560, D |-> 510]] }

\* band tables given to band_of: the two above and one whose thresholds
\* do not follow the letters, two of them equal
BandTables ==
    {c.bands : c \in ScorecardConfs}
    \cup {[A |-> 600, B |-> 650, C |-> 600, D |-> 520]}
BandScores == {0, 505, 510, 519, 520, 560, 599, 600, 639, 640, 650, 1000}
BandArgs == [bands : BandTables, s1 : BandScores, s2 : BandScores]

\* get_scorecard has not loaded a configuration yet
NoConf ==
    [S0 |-> 0, pd_floor |-> PdZero, pd_ceiling |-> PdOne, score_min |-> 0,
     score_max |-> 0, bands |-> [E |-> 0]]

\* probabilities the classifier may return
PdValues == {PdZero, PdOne} \cup {Pd(x) : x \in {-400, -249, -161, -41, 1, 41, 99, 133}}

(***************************************************************************)
(* Pricing (risk/services/registry.py, _PricingWrapper.suggest_rate)       *)
(*                                                                         *)
(* A monthly rate is a whole number of times 100 % (0 is 0 %, 1 is 100 %   *)
(* a month): with these rates the Price installment and the net present    *)
(* value at the solver's bracket ends are exact in integers.               *)
(***************************************************************************)
\* caps: present is the truth value of the dict, has_min / has_max say which
\* of the two keys it holds
NoCaps ==
    [present |-> FALSE, has_min |-> FALSE, has_max |-> FALSE,
     min_rate_monthly |-> 0, max_rate_monthly |-> 0]

\* variant without the clip
ClipRateUnclipped(cp, y) == y
\* variant that answers the lower cap for a value above the upper cap
ClipRateResetting(cp, y) ==
    IF cp.present /\ cp.has_max /\ y > cp.max_rate_monthly
    THEN (IF cp.has_min THEN cp.min_rate_monthly ELSE 0)
    ELSE IF cp.present /\ cp.has_min THEN Max2(cp.min_rate_monthly, y) ELSE y

\* np.clip(y, caps.get("min_rate_monthly", -inf), caps.get("max_rate_monthly", inf))
ClipRate(cp, y) ==
    IF ~cp.present THEN y
    ELSE LET lo == IF cp.has_min THEN Max2(cp.min_rate_monthly, y) ELSE y
         IN  IF cp.has_max THEN Min2(cp.max_rate_monthly, lo) ELSE lo

\* values of the fitted curve (the artifact is loaded at run time)
CurveRates == {0, 1}

\* caps of the artifact or of mlops/conf/pricing.yaml, or none
CapsConfs ==
    {NoCaps, [present |-> TRUE, has_min |-> TRUE, has_max |-> TRUE,
              min_rate_monthly |-> 1, max_rate_monthly |-> 1]}

\* The fitted curve, for the calls below that give the probability as a
\* number: the probability in thousandths, a rate in millionths.
\* lr.predict(X): intercept + coef[0] * pd, + coef[1] * pd^2 when the
\* regression has two coefficients; fit_linr fits it with positive=True
LrPredict(art, p) == art.c + art.a * p + (art.b * p * p) \div 1000

\* the artifact's curve: iso.predict when the artifact has an isotonic
\* correction, and lr.predict otherwise
CurveValue(art, p) == IF art.has_iso THEN art.iso[p] ELSE LrPredict(art, p)

\* _PricingWrapper.suggest_rate
suggest_rate(art, cp, p) == ClipRate(cp, CurveValue(art, p))

PricingPds == {0, 10, 100, 600, 1000}

\* unit economics: lgd in percent, the three rates in millionths; the
\* values _ue() falls back to when the configuration has none
UeDefaults == [lgd |-> 45, funding |-> 8000, opex |-> 3000, margin |-> 2000]
UeConfs == {UeDefaults, [lgd |-> 60, funding |-> 12000, opex |-> 3000, margin |-> 6000]}

\* el_over_P = pd * lgd * 0.5; risk_month = el_over_P / (max(int(n), 1) / 12.0)
RiskMonth(ue, p, n) == (p * ue.lgd * 60) \div Max2(n, 1)

\* i_min = funding + opex + risk_month + margin
IMinSum(ue, p, n) == ue.funding + ue.opex + RiskMonth(ue, p, n) + ue.margin

\* _PricingWrapper.min_rate: the sum, raised to caps["min_rate_monthly"]
\* when the caps hold one
min_rate(cp, ue, p, n) ==
    IF cp.has_min THEN Max2(IMinSum(ue, p, n), cp.min_rate_monthly)
    ELSE IMinSum(ue, p, n)

\* _PricingWrapper.components: the parts and their sum
components(cp, ue, p, n) ==
    [risk_component_monthly |-> RiskMonth(ue, p, n), funding |-> ue.funding,
     opex |-> ue.opex, margin_target |-> ue.margin, i_min |-> IMinSum(ue, p, n)]
IsoLevels == {10000, 30000, 70000}

\* IsotonicRegression(increasing=True, out_of_bounds="clip"): any
\* non-decreasing function of the probability
IsoFits ==
    {f \in [PricingPds -> IsoLevels] :
        \A p, q \in PricingPds : p <= q => f[p] <= f[q]}

NoIso == [p \in PricingPds |-> 0]

\* artifacts written by train_pricing.py: {lr, iso}, iso None when
\* enforce_monotonic is off
Artifacts ==
    [a : {0, 50}, b : {0, 40}, c : {-5000, 15000}, has_iso : {FALSE}, iso : {NoIso}]
    \cup [a : {50}, b : {0}, c : {15000}, has_iso : {TRUE}, iso : IsoFits]

\* caps of the calls below: none, both, only one of the two
PricingCaps ==
    {NoCaps,
     [present |-> TRUE, has_min |-> TRUE, has_max |-> TRUE,
      min_rate_monthly |-> 20000, max_rate_monthly |-> 60000],
     [present |-> TRUE, has_min |-> TRUE, has_max |-> FALSE,
      min_rate_monthly |-> 20000, max_rate_monthly |-> 0],
     [present |-> TRUE, has_min |-> FALSE, has_max |-> TRUE,
      min_rate_monthly |-> 0, max_rate_monthly |-> 60000]}

(***************************************************************************)
(* Price installment (risk/calculators/pmt.py)                             *)
(***************************************************************************)
RECURSIVE Pow(_, _)
Pow(b, e) == IF e <= 0 THEN 1 ELSE b * Pow(b, e - 1)

\* bits of the significand of a Python float
MantissaBits == 53

\* (1 + r) ** n - 1 in floats, at r = 1: 2^n is exact, and 2^n - 1 has a
\* float of its own up to n = 53; from n = 54 on it is rounded back to 2^n,
\* so that k is 1.0 and the installment is pv * r, the interest alone
PowMinusOneAbsorbed(r, n) == r = 1 /\ n > MantissaBits

\* variant without the test of n_months
pmt_price_unchecked(r, n, pv) ==
    IF r = 0 THEN [raised |-> "none", num |-> pv, den |-> n]
    ELSE [raised |-> "none", num |-> pv * r * Pow(1 + r, n),
          den |-> Pow(1 + r, n) - 1]
\* pmt_price(rate_monthly, n_months, pv): the installment as the fraction
\* num / den, den > 0, or the ValueError raised for n_months <= 0
pmt_price(r, n, pv) ==
    IF n <= 0 THEN [raised |-> "ValueError"]
    ELSE IF r = 0 THEN [raised |-> "none", num |-> pv, den |-> n]
    ELSE IF PowMinusOneAbsorbed(r, n) THEN [raised |-> "none", num |-> pv * r, den |-> 1]
    ELSE [raised |-> "none", num |-> pv * r * Pow(1 + r, n),
          den |-> Pow(1 + r, n) - 1]

\* round(x, 2) of the fraction num / den, in cents (ties to even)
RoundCents(num, den) ==
    LET whole == num \div den
        part == 100 * (num % den)
        q == 100 * whole + part \div den
        rem2 == 2 * (part % den)
    IN  IF rem2 < den THEN q
        ELSE IF rem2 > den THEN q + 1
        ELSE IF q % 2 = 0 THEN q ELSE q + 1

\* amort = pmt - juros, as a numerator over the installment's denominator:
\* P the installment's numerator, S the balance's
AmortWithoutInterest(P, S, r) == P
Amort(P, S, r) == P - S * r

RECURSIVE ScheduleRows(_, _, _, _, _, _)
\* the rows t..n of amortization_schedule (lines 39-51), the balance at the
\* start of row t being S / D; amounts in cents, and the loop's own saldo
\* and amort of the row as numerators over D
ScheduleRows(P, D, r, n, t, S) ==
    IF t > n THEN <<>>
    ELSE LET amort == Amort(P, S, r)
             saldo_fim == S - amort
         IN  <<[periodo |-> t,
                saldo_ini |-> RoundCents(S, D),
                juros |-> RoundCents(S * r, D),
                amortizacao |-> RoundCents(amort, D),
                parcela |-> RoundCents(P, D),
                saldo_fim |-> RoundCents(Max2(saldo_fim, 0), D),
                saldo |-> S, amort |-> amort]>>
             \o ScheduleRows(P, D, r, n, t + 1, saldo_fim)

RECURSIVE Gcd(_, _)
Gcd(a, b) == IF b = 0 THEN a ELSE Gcd(b, a % b)

RECURSIVE IsPowerOfTwo(_)
IsPowerOfTwo(d) == d = 1 \/ (d > 1 /\ d % 2 = 0 /\ IsPowerOfTwo(d \div 2))

\* the float pv / n of line 23 is the quotient itself only when that is a
\* binary fraction; otherwise it is the float next below or next above it.
\* The distance is taken as 1 / (n * FloatScale).
FloatScale == 1000
PmtRoundings(r, n, pv) ==
    IF r = 0 /\ n > 0 /\ ~IsPowerOfTwo(n \div Gcd(pv, n)) THEN {-1, 1} ELSE {0}

\* the installment e floats away from the fraction pmt
Rounded(pmt, e) ==
    IF e = 0 THEN pmt
    ELSE [raised |-> "none", num |-> pmt.num * FloatScale + e,
          den |-> pmt.den * FloatScale]

\* amortization_schedule(pv, rate_monthly, n_months), e the rounding of the
\* installment
amortization_schedule(pv, r, n, e) ==
    LET exact == pmt_price(r, n, pv)
    IN  IF exact.raised # "none" THEN [raised |-> exact.raised, rows |-> <<>>]
        ELSE LET pmt == Rounded(exact, e)
             IN  [raised |-> "none",
                  rows |-> ScheduleRows(pmt.num, pmt.den, r, n, 1, pv * pmt.den)]

(***************************************************************************)
(* CET by internal rate of return (risk/calculators/cet.py)                *)
(***************************************************************************)
SignCap == 200000

Sign(v) == IF v > 0 THEN 1 ELSE IF v < 0 THEN -1 ELSE 0

\* keeps the sign and the zero of a running sum once it has left
\* [-SignCap, SignCap]: with a multiplier x >= 2 and terms within the cap it
\* can never come back
Saturate(v, x) ==
    IF x < 2 THEN v
    ELSE IF v > SignCap THEN SignCap
    ELSE IF v < -SignCap THEN -SignCap
    ELSE v

RECURSIVE HornerUp(_, _, _, _)
\* sum of flows[i..] * x^(later index first): acc*x + next, from the front
HornerUp(flows, x, i, acc) ==
    IF i > Len(flows) THEN acc
    ELSE LET nxt == Saturate(acc * x + flows[i], x)
         IN  IF nxt = nxt THEN HornerUp(flows, x, i + 1, nxt) ELSE 0

RECURSIVE HornerDown(_, _, _, _)
HornerDown(flows, x, i, acc) ==
    IF i < 1 THEN acc
    ELSE LET nxt == Saturate(acc * x + flows[i], x)
         IN  IF nxt = nxt THEN HornerDown(flows, x, i - 1, nxt) ELSE 0

\* sign of npv(rate, cashflows) = sum cf_t / (1 + rate)^t, where 1 + rate is
\* u / v with u = 1 or v = 1: the sum times a positive power of u or v
NpvSign(flows, u, v) ==
    IF v = 1 THEN Sign(HornerUp(flows, u, 1, 0))
    ELSE Sign(HornerDown(flows, v, Len(flows), 0))

\* the brackets of irr_newton_bisection as 1 + rate = u / v
BracketLow == <<1, 10000>>
BracketHigh == <<2, 1>>
BracketHighExpanded == <<4, 1>>

\* fa * fb > 0 on a bracket
SameSignOn(flows, hi) ==
    NpvSign(flows, BracketLow[1], BracketLow[2]) * NpvSign(flows, hi[1], hi[2]) > 0

\* a rate r > -1 with npv(r) = 0 needs flows of both signs
MixedSigns(flows) ==
    /\ \E i \in 1..Len(flows) : flows[i] > 0
    /\ \E i \in 1..Len(flows) : flows[i] < 0

\* the first power of 1 + (-0.9999) that is 0.0 as a float: about 1e-4 to
\* the 81st is below the smallest positive float
UnderflowPower == 81

\* npv(-0.9999, cashflows) divides by (1 + rate) ** t for every t: with a
\* flow at t >= 81 the division is by 0.0 and raises ZeroDivisionError
NpvRaises(flows) == Len(flows) - 1 >= UnderflowPower

\* tol = 1e-10 over the relative rounding error 2^-53 of one float operation
TolOverEpsilon == 900000

RECURSIVE SumAbs(_, _)
SumAbs(flows, i) ==
    IF i > Len(flows) THEN 0
    ELSE (IF flows[i] < 0 THEN -flows[i] ELSE flows[i]) + SumAbs(flows, i + 1)

\* at a rate where the exact net present value is 0, the float one is below
\* tol for certain when the rounding of the installment and of the sum,
\* at most (n + 4) * 2^-53 times the sum of the |flows|, is; flows are
\* den times the amounts
ResidualBelowTol(flows, den) ==
    (SumAbs(flows, 1) \div den + 1) * (Len(flows) + 3) < TolOverEpsilon

\* the bisection fallback of irr_newton_bisection (lines 54-74): what is
\* returned once the Newton loop has been left without a root
IrrFallback(flows) ==
    IF NpvRaises(flows) THEN "ZeroDivisionError"
    ELSE IF SameSignOn(flows, BracketHigh) /\ SameSignOn(flows, BracketHighExpanded)
    THEN "guess" ELSE "bisection_root"

\* irr_newton_bisection(cashflows, guess): the outcomes it can have. The
\* Newton loop returns its iterate only when |npv| < tol there, at once when
\* the float net present value at the guess is below tol; otherwise it
\* either gets there within max_iter steps or the fallback decides.
IrrOutcomes(flows, den, guess) ==
    IF NpvSign(flows, 1 + guess, 1) = 0 /\ ResidualBelowTol(flows, den)
    THEN {"newton_root"}
    ELSE (IF MixedSigns(flows) THEN {"newton_root"} ELSE {}) \cup {IrrFallback(flows)}

(***************************************************************************)
(* irr_newton_bisection step by step. Rates are positions on a grid of the *)
(* floats between -0.9999 (position 0) and 3.0 (position 2 * GridSize),    *)
(* 1.0 being position GridSize; the net present value is known by its      *)
(* sign at a position and by whether it is below tol there.                *)
(***************************************************************************)
GridBits == 3
GridSize == Pow(2, GridBits)

\* max_iter of the Newton loop and the range of the bisection loop
MaxIter == 100
BisectIter == 200

\* the cash flows as the solver sees them: n the number of installments;
\* profile "root" when the net present value rises through 0 at the rate
\* root / 2 (in half positions, so that it can lie between two floats),
\* "positive" or "negative" when it keeps one sign; tolw the half width, in
\* half positions, of the rates where |npv| < tol (-1 when no float is)
IrrCase(n, profile, root, tolw, guess) ==
    [n |-> n, profile |-> profile, root |-> root, tolw |-> tolw, guess |-> guess]

\* abs(npv(r)) < tol at position p
WithinTol(c, p) ==
    /\ c.profile = "root"
    /\ (IF 2 * p >= c.root THEN 2 * p - c.root ELSE c.root - 2 * p) <= c.tolw

\* sign of npv at position p
NpvSignAt(c, p) ==
    CASE c.profile = "positive" -> 1
      [] c.profile = "negative" -> -1
      [] OTHER -> Sign(2 * p - c.root)

\* r_next = r - f / df of one Newton step: a finite rate, or not
NewtonMoves ==
    {[df_ok |-> FALSE, finite |-> TRUE, pos |-> 0]}
    \cup {[df_ok |-> TRUE, finite |-> FALSE, pos |-> 0]}
    \cup {[df_ok |-> TRUE, finite |-> TRUE, pos |-> p] :
             p \in {-1, 0, 1, GridSize - 1, GridSize, GridSize + 1}}

\* the Newton loop goes on with r_next (lines 44-51)
NewtonContinues(mv) ==
    /\ mv.df_ok
    /\ mv.finite /\ mv.pos > 0 /\ mv.pos < GridSize

IrrStart(c) ==
    [phase |-> "newton", k |-> 0, j |-> 0, r |-> c.guess, a |-> 0, b |-> 0,
     expanded |-> FALSE, ret |-> "none", value |-> 0]

\* one pass of the Newton loop (lines 40-51)
NewtonStep ==
    /\ fn = "irr_newton_bisection" /\ ~applied
    /\ out.phase = "newton" /\ out.k < MaxIter
    /\ IF WithinTol(arg, out.r)
       THEN /\ out' = [out EXCEPT !.phase = "returned", !.k = @ + 1,
                                  !.ret = "newton", !.value = out.r]
            /\ applied' = TRUE
       ELSE /\ \E mv \in NewtonMoves :
                 out' = IF NewtonContinues(mv)
                        THEN [out EXCEPT !.k = @ + 1, !.r = mv.pos]
                        ELSE [out EXCEPT !.k = @ + 1, !.phase = "fallback"]
            /\ applied' = FALSE
    /\ UNCHANGED <<fn, arg, regVars, reqVars, dbVars>>

\* the Newton loop has made max_iter passes
NewtonExhausted ==
    /\ fn = "irr_newton_bisection" /\ ~applied
    /\ out.phase = "newton" /\ out.k = MaxIter
    /\ out' = [out EXCEPT !.phase = "fallback"]
    /\ UNCHANGED <<fn, arg, applied, regVars, reqVars, dbVars>>

\* the bracket of the fallback (lines 53-63): npv(-0.9999, .) raises on
\* flows with a term at t >= 81; the bracket is expanded when fa * fb > 0,
\* and the guess is returned when the expanded one shows no sign change.
\* The Newton loop's counter and iterate are not used any more.
ChooseBracket ==
    /\ fn = "irr_newton_bisection" /\ ~applied
    /\ out.phase = "fallback"
    /\ LET left == [out EXCEPT !.k = 0, !.r = 0]
       IN  IF arg.n >= UnderflowPower
           THEN /\ out' = [left EXCEPT !.phase = "raised", !.ret = "ZeroDivisionError"]
                /\ applied' = TRUE
           ELSE IF NpvSignAt(arg, 0) * NpvSignAt(arg, GridSize) <= 0
           THEN /\ out' = [left EXCEPT !.phase = "bisect", !.a = 0, !.b = GridSize]
                /\ applied' = FALSE
           ELSE IF NpvSignAt(arg, 0) * NpvSignAt(arg, 2 * GridSize) > 0
           THEN /\ out' = [left EXCEPT !.phase = "returned", !.expanded = TRUE,
                                       !.ret = "guess", !.value = arg.guess]
                /\ applied' = TRUE
           ELSE /\ out' = [left EXCEPT !.phase = "bisect", !.expanded = TRUE,
                                       !.a = 0, !.b = 2 * GridSize]
                /\ applied' = FALSE
    /\ UNCHANGED <<fn, arg, regVars, reqVars, dbVars>>

\* m = (a + b) / 2.0 as a float: the midpoint, or a float next to it when
\* the midpoint is none
Midpoints(a, b) == {(a + b) \div 2, (a + b + 1) \div 2}

\* variant that keeps the other half
BisectUpdateSwapped(c, a, b, m) ==
    IF NpvSignAt(c, a) * NpvSignAt(c, m) <= 0 THEN <<m, b>> ELSE <<a, m>>
\* if fa * fm <= 0: b, fb = m, fm; else: a, fa = m, fm
BisectUpdate(c, a, b, m) ==
    IF NpvSignAt(c, a) * NpvSignAt(c, m) <= 0 THEN <<a, m>> ELSE <<m, b>>

\* one pass of the bisection loop (lines 65-73)
BisectStep ==
    /\ fn = "irr_newton_bisection" /\ ~applied
    /\ out.phase = "bisect" /\ out.j < BisectIter
    /\ \E m \in Midpoints(out.a, out.b) :
        IF WithinTol(arg, m)
        THEN /\ out' = [out EXCEPT !.phase = "returned", !.j = @ + 1,
                                   !.ret = "bisect_tol", !.value = m]
             /\ applied' = TRUE
        ELSE /\ out' = [out EXCEPT !.j = @ + 1,
                                   !.a = BisectUpdate(arg, out.a, out.b, m)[1],
                                   !.b = BisectUpdate(arg, out.a, out.b, m)[2]]
             /\ applied' = FALSE
    /\ UNCHANGED <<fn, arg, regVars, reqVars, dbVars>>

\* the bisection loop has made its 200 passes: return (a + b) / 2.0
BisectExhausted ==
    /\ fn = "irr_newton_bisection" /\ ~applied
    /\ out.phase = "bisect" /\ out.j = BisectIter
    /\ \E m \in Midpoints(out.a, out.b) :
        out' = [out EXCEPT !.phase = "returned", !.ret = "bisect_end", !.value = m]
    /\ applied' = TRUE
    /\ UNCHANGED <<fn, arg, regVars, reqVars, dbVars>>

\* the cash flows tried: 6 and 81 installments; roots inside the first
\* bracket, on and between floats, inside the expanded one only, and beyond
IrrCases ==
    {IrrCase(n, "root", root, tolw, g) :
        n \in {6, UnderflowPower},
        root \in {6, 7, 2 * GridSize, 3 * GridSize + 1, 4 * GridSize + 3},
        tolw \in {-1, 0, 2},
        g \in {3, GridSize + 4}}
    \cup {IrrCase(n, p, 0, -1, 3) : n \in {6, UnderflowPower}, p \in {"positive", "negative"}}

\* req.fees: the three amounts, numeric FALSE when one of them is a value
\* float() cannot convert
NoFees == [upfront |-> 0, monthly |-> 0, disbursement_discount |-> 0, numeric |-> TRUE]
BadFees == [upfront |-> 0, monthly |-> 0, disbursement_discount |-> 0, numeric |-> FALSE]

\* float(fees.get(...)) raises ValueError on a value that is no number
FeesRaise(fees) == ~fees.numeric

\* the cash flows of cet_from_flows, times the installment's denominator:
\* [pv - upfront - disc0] + [-(pmt + monthly_fee)] * n
CashFlows(pv, pmt, n, fees) ==
    <<(pv - fees.upfront - fees.disbursement_discount) * pmt.den>>
    \o [t \in 1..n |-> -(pmt.num + fees.monthly * pmt.den)]

\* cet_from_flows(pv, rate_monthly, n_months, fees): the outcomes it can have,
\* each [raised, kind]: kind says which number is returned as the monthly CET
cet_from_flows(pv, r, n, fees) ==
    IF FeesRaise(fees) THEN {[raised |-> "ValueError", kind |-> "none"]}
    ELSE LET pmt == pmt_price(r, n, pv)
         IN  IF pmt.raised # "none" THEN {[raised |-> pmt.raised, kind |-> "none"]}
             ELSE {IF k = "ZeroDivisionError"
                   THEN [raised |-> "ZeroDivisionError", kind |-> "none"]
                   ELSE [raised |-> "none", kind |-> k] :
                       k \in IrrOutcomes(CashFlows(pv, pmt, n, fees), pmt.den, r)}

(***************************************************************************)
(* Eligibility (analyze_eligibility of consign_app/api/helper.py, which is *)
(* not among the sources: modelled from section 4.5 of the specification) *)
(***************************************************************************)
BandRank(b) ==
    CASE b = "A" -> 5 [] b = "B" -> 4 [] b = "C" -> 3 [] b = "D" -> 2 [] OTHER -> 1

\* rule 1: the band is below min_band
BandRuleFails(band, min_band) == BandRank(band) < BandRank(min_band)

\* rule 2: installment / monthly_income > max_income_ratio; the installment
\* in cents, the income in whole units, the ratio in percent
IncomeRuleFailsAtThreshold(installment, monthly_income, ratio_pct) ==
    installment >= ratio_pct * monthly_income
IncomeRuleFails(installment, monthly_income, ratio_pct) ==
    installment > ratio_pct * monthly_income

EligibilityReasonsFirstOnly(band, installment, monthly_income, min_band, ratio_pct) ==
    IF BandRuleFails(band, min_band) THEN <<"score_insuficiente(<D)">>
    ELSE IF IncomeRuleFails(installment, monthly_income, ratio_pct)
         THEN <<"parcela_acima_35pct_renda">> ELSE <<>>
EligibilityReasons(band, installment, monthly_income, min_band, ratio_pct) ==
    (IF BandRuleFails(band, min_band) THEN <<"score_insuficiente(<D)">> ELSE <<>>)
    \o (IF IncomeRuleFails(installment, monthly_income, ratio_pct)
        THEN <<"parcela_acima_35pct_renda">> ELSE <<>>)

evaluate(band, installment, monthly_income, min_band, ratio_pct) ==
    LET reasons == EligibilityReasons(band, installment, monthly_income,
                                      min_band, ratio_pct)
    IN  [eligible |-> reasons = <<>>, reasons |-> reasons, band |-> band,
         installment |-> installment, renda_mensal |-> monthly_income]

(***************************************************************************)
(* Feature aggregation (consign_app/api/feature_builder.py)                *)
(***************************************************************************)
FEATURE_ORDER ==
    {"beneficio_ativo", "tempo_beneficio_meses", "emprego_ativo",
     "tempo_emprego_meses", "renda_media_6m", "coef_var_renda",
     "pct_meses_saldo_neg_6m", "utilizacao_cartao", "pct_minimo_pago_3m",
     "num_faturas_vencidas_3m", "endividamento_total", "parcelas_renda",
     "DPD_max_12m", "idade", "tempo_rel_banco_meses"}

NoVector == [k \in {} |-> 0]

\* what one upstream request can end with before its payload is looked at:
\* requests.get raises (timeout, connection error), the status is not 2xx,
\* the body is no JSON
Transport == {"timeout", "http_error", "bad_json"}

\* the exception build_features_for_borrower ends with on an outcome
\*   timeout        requests.get raises; nothing catches it
\*   http_error     _json_ok: raise_for_status -> FeatureBuildError
\*   bad_json       _json_ok: resp.json() -> FeatureBuildError
\*   not_object     the JSON root is a list: root.get raises AttributeError
\*   empty_list, data_not_list, missing_field, bad_date
\*                  the tests and try blocks that raise FeatureBuildError
\*   bad_date_raw   _parse_date_ymd outside a try block (installments,
\*                  payments): strptime's ValueError
ExcOf(o) ==
    CASE o = "ok" -> "none"
      [] o = "timeout" -> "RequestException"
      [] o = "not_object" -> "AttributeError"
      [] o = "bad_date_raw" -> "ValueError"
      [] OTHER -> "FeatureBuildError"

UpInit ==
    [beneficio_ativo |-> 0, emprego_ativo |-> 0, nAcc |-> 0, acc |-> 0,
     credits |-> 0, nCards |-> 0, card |-> 0, nBills |-> 0, bill |-> 0,
     nLoans |-> 0, loan |-> 0, instBadDate |-> FALSE]

Call(name, i, j, o) == [name |-> name, i |-> i, j |-> j, outcome |-> o]

\* variant that issues a request again after a transport failure
IssueRetrying(name, i, j, o, nextpc) ==
    /\ calls' = Append(calls, Call(name, i, j, o))
    /\ exc' = IF o \in Transport /\ Len(calls) < 3 THEN "none" ELSE ExcOf(o)
    /\ pc' = IF ExcOf(o) = "none" THEN nextpc
             ELSE IF o \in Transport /\ Len(calls) < 3 THEN pc ELSE "fb_raised"
\* an upstream request is issued and answered with outcome o; on a failing
\* outcome the exception leaves build_features_for_borrower
Issue(name, i, j, o, nextpc) ==
    /\ calls' = Append(calls, Call(name, i, j, o))
    /\ exc' = ExcOf(o)
    /\ pc' = IF ExcOf(o) = "none" THEN nextpc ELSE "fb_raised"

\* 1) Dataprev: beneficios (lines 141-158)
FetchBeneficios ==
    /\ pc = "fb_beneficios"
    /\ stages' = Append(stages, "features")
    /\ \E o \in Transport \cup {"not_object", "empty_list", "missing_field", "bad_date", "ok"} :
        /\ Issue("beneficios", 0, 0, o, "fb_relacoes")
        /\ IF o = "ok"
           THEN \E ativo \in {0, 1} : up' = [up EXCEPT !.beneficio_ativo = ativo]
           ELSE up' = up
    /\ UNCHANGED <<cfgVars, features, sv, risk, offers, elig, resp, scConf, caps, regVars, calcVars, dbVars>>

\* 2) Dataprev: relacoes trabalhistas (lines 160-177)
FetchRelacoes ==
    /\ pc = "fb_relacoes"
    /\ \E o \in Transport \cup {"not_object", "empty_list", "missing_field", "bad_date", "ok"} :
        /\ Issue("relacoes", 0, 0, o, "fb_ident")
        /\ IF o = "ok"
           THEN \E ativo \in {0, 1} : up' = [up EXCEPT !.emprego_ativo = ativo]
           ELSE up' = up
    /\ UNCHANGED <<cfgVars, stages, features, sv, risk, offers, elig, resp, scConf, caps, regVars, calcVars, dbVars>>

\* 3) Open Finance: identification (lines 179-197)
FetchIdent ==
    /\ pc = "fb_ident"
    /\ \E o \in Transport \cup {"not_object", "missing_field", "bad_date", "ok"} :
        Issue("ident", 0, 0, o, "fb_accounts")
    /\ UNCHANGED <<cfgVars, stages, up, features, sv, risk, offers, elig, resp, scConf, caps, regVars, calcVars, dbVars>>

\* 4) Open Finance: accounts (lines 199-205)
FetchAccounts ==
    /\ pc = "fb_accounts"
    /\ \E o \in Transport \cup {"not_object", "empty_list", "ok"} :
        /\ Issue("accounts", 0, 0, o, "fb_acc_tx")
        /\ IF o = "ok"
           THEN \E n \in 1..MaxAccounts : up' = [up EXCEPT !.nAcc = n, !.acc = 1]
           ELSE up' = up
    /\ UNCHANGED <<cfgVars, stages, features, sv, risk, offers, elig, resp, scConf, caps, regVars, calcVars, dbVars>>

\* the credits of one account over the six months (sum of its CREDIT amounts)
AccountCredits == {0, 6000}

\* transactions of the current account (lines 216-247)
FetchAccountTx ==
    /\ pc = "fb_acc_tx"
    /\ \E o \in Transport \cup {"not_object", "data_not_list", "ok"} :
        /\ Issue("acc_tx", up.acc, 0, o,
                 IF up.acc < up.nAcc THEN "fb_acc_tx" ELSE "fb_cards")
        /\ IF o = "ok"
           THEN \E c \in AccountCredits :
                    up' = [up EXCEPT !.credits = @ + c, !.acc = @ + 1]
           ELSE up' = up
    /\ UNCHANGED <<cfgVars, stages, features, sv, risk, offers, elig, resp, scConf, caps, regVars, calcVars, dbVars>>

\* 5) Open Finance: card accounts (lines 269-275)
FetchCards ==
    /\ pc = "fb_cards"
    /\ \E o \in Transport \cup {"not_object", "empty_list", "ok"} :
        /\ Issue("cc_accounts", 0, 0, o, "fb_bills")
        /\ IF o = "ok"
           THEN \E n \in 1..MaxCards : up' = [up EXCEPT !.nCards = n, !.card = 1]
           ELSE up' = up
    /\ UNCHANGED <<cfgVars, stages, features, sv, risk, offers, elig, resp, scConf, caps, regVars, calcVars, dbVars>>

\* where the card loops go after the current bill, or card, is done
AfterBill(u) ==
    IF u.bill < u.nBills THEN "fb_cc_tx"
    ELSE IF u.card < u.nCards THEN "fb_bills" ELSE "fb_loans"

\* bills of the current card account (lines 290-306)
FetchBills ==
    /\ pc = "fb_bills"
    /\ \E o \in Transport \cup {"not_object", "data_not_list", "ok"} :
        IF o = "ok"
        THEN \E n \in 0..MaxBills :
                /\ Issue("cc_bills", up.card, 0, o,
                         IF n > 0 THEN "fb_cc_tx"
                         ELSE IF up.card < up.nCards THEN "fb_bills" ELSE "fb_loans")
                /\ up' = [up EXCEPT !.nBills = n, !.bill = IF n > 0 THEN 1 ELSE 0,
                                    !.card = IF n > 0 THEN @ ELSE @ + 1]
        ELSE /\ Issue("cc_bills", up.card, 0, o, "fb_raised")
             /\ up' = up
    /\ UNCHANGED <<cfgVars, stages, features, sv, risk, offers, elig, resp, scConf, caps, regVars, calcVars, dbVars>>

\* transactions of the current bill (lines 309-339)
FetchBillTx ==
    /\ pc = "fb_cc_tx"
    /\ \E o \in Transport \cup {"not_object", "data_not_list", "ok"} :
        /\ Issue("cc_tx", up.card, up.bill, o, AfterBill(up))
        /\ IF o = "ok"
           THEN up' = IF up.bill < up.nBills
                      THEN [up EXCEPT !.bill = @ + 1]
                      ELSE [up EXCEPT !.bill = 0, !.nBills = 0, !.card = @ + 1]
           ELSE up' = up
    /\ UNCHANGED <<cfgVars, stages, features, sv, risk, offers, elig, resp, scConf, caps, regVars, calcVars, dbVars>>

\* 6) Open Finance: loan contracts (lines 356-370)
FetchLoans ==
    /\ pc = "fb_loans"
    /\ \E o \in Transport \cup {"not_object", "data_not_list", "ok"} :
        IF o = "ok"
        THEN \E n \in 0..MaxContracts :
                /\ Issue("loans", 0, 0, o, IF n > 0 THEN "fb_inst" ELSE "fb_assemble")
                /\ up' = [up EXCEPT !.nLoans = n, !.loan = IF n > 0 THEN 1 ELSE 0]
        ELSE /\ Issue("loans", 0, 0, o, "fb_raised")
             /\ up' = up
    /\ UNCHANGED <<cfgVars, stages, features, sv, risk, offers, elig, resp, scConf, caps, regVars, calcVars, dbVars>>

\* installments of the current contract (lines 386-392); their due dates are
\* parsed only after the payments have been fetched (line 416)
FetchInstallments ==
    /\ pc = "fb_inst"
    /\ \E o \in Transport \cup {"not_object", "data_not_list", "ok"} :
        /\ Issue("loan_inst", up.loan, 0, o, "fb_pay")
        /\ IF o = "ok"
           THEN \E bad \in BOOLEAN : up' = [up EXCEPT !.instBadDate = bad]
           ELSE up' = up
    /\ UNCHANGED <<cfgVars, stages, features, sv, risk, offers, elig, resp, scConf, caps, regVars, calcVars, dbVars>>

\* payments of the current contract, then the loop over its installments
\* (lines 394-431): a payload whose data is no list is skipped (line 400),
\* paymentDate and dueDate are parsed outside any try block
FetchPayments ==
    /\ pc = "fb_pay"
    /\ \E o \in Transport \cup {"not_object", "data_not_list", "bad_date_raw", "ok"} :
        LET o2 == IF o = "data_not_list" THEN "ok" ELSE o
            nextpc == IF up.loan < up.nLoans THEN "fb_inst" ELSE "fb_assemble"
        IN  /\ calls' = Append(calls, Call("loan_pay", up.loan, 0, o))
            /\ IF ExcOf(o2) # "none"
               THEN /\ exc' = ExcOf(o2)
                    /\ pc' = "fb_raised"
                    /\ up' = up
               ELSE IF up.instBadDate
               THEN /\ exc' = ExcOf("bad_date_raw")
                    /\ pc' = "fb_raised"
                    /\ up' = up
               ELSE /\ exc' = "none"
                    /\ pc' = nextpc
                    /\ up' = [up EXCEPT !.loan = @ + 1]
    /\ UNCHANGED <<cfgVars, stages, features, sv, risk, offers, elig, resp, scConf, caps, regVars, calcVars, dbVars>>

\* a calendar month, the 'YYYY-MM' of the code
Month(y, m) == [y |-> y, m |-> m]

RECURSIVE LastNMonthsNoWrap(_, _, _)
\* variant that does not go back into the previous year
LastNMonthsNoWrap(n, y, m) ==
    IF n = 0 THEN <<>>
    ELSE Append(LastNMonthsNoWrap(n - 1, y, m - 1), Month(y, m))
RECURSIVE LastNMonths(_, _, _)
\* _last_n_months(n, ref): the n months that end with ref's, oldest first;
\* m -= 1, and at m == 0 the month is 12 of the year before
LastNMonths(n, y, m) ==
    IF n = 0 THEN <<>>
    ELSE Append(IF m - 1 = 0 THEN LastNMonths(n - 1, y - 1, 12)
                ELSE LastNMonths(n - 1, y, m - 1),
                Month(y, m))

\* one account transaction: bookingDate (has_date FALSE when it is missing
\* or empty; ym its first seven characters), amount, creditDebitType
Tx(has_date, ym, amount, cdt) ==
    [has_date |-> has_date, ym |-> ym, amount |-> amount, cdt |-> cdt]

RECURSIVE AccumulateTx(_, _, _)
\* the loop over the transactions (lines 235-247): agg is
\* [income, net], each a function of the months of the window
AccumulateTx(txs, i, agg) ==
    IF i > Len(txs) THEN agg
    ELSE LET tx == txs[i]
             nxt ==
               IF ~tx.has_date THEN agg
               ELSE IF tx.ym \notin DOMAIN agg.income THEN agg
               ELSE IF tx.cdt = "CREDIT"
               THEN [income |-> [agg.income EXCEPT ![tx.ym] = @ + tx.amount],
                     net |-> [agg.net EXCEPT ![tx.ym] = @ + tx.amount]]
               ELSE IF tx.cdt = "DEBIT"
               THEN [agg EXCEPT !.net = [agg.net EXCEPT ![tx.ym] = @ - tx.amount]]
               ELSE agg
         IN  AccumulateTx(txs, i + 1, nxt)

RECURSIVE SumOver(_, _, _)
\* sum(monthly_vals): the values of f at the entries of the list s
SumOver(f, s, i) == IF i > Len(s) THEN 0 ELSE f[s[i]] + SumOver(f, s, i + 1)

\* the six-month income statistics (lines 207-267) of the transactions of
\* all accounts: renda_media_6m as total / 6 and pct_meses_saldo_neg_6m as
\* neg_months / 6, each [num, den]
IncomeStats(today, txs) ==
    LET months6 == LastNMonths(6, today.y, today.m)
        keys == {months6[i] : i \in 1..Len(months6)}
        agg == AccumulateTx(txs, 1, [income |-> [k \in keys |-> 0],
                                     net |-> [k \in keys |-> 0]])
        total_income_6m == SumOver(agg.income, months6, 1)
        neg_months == Cardinality({k \in keys : agg.net[k] < 0})
    IN  [renda_media_6m |-> [num |-> total_income_6m, den |-> 6],
         pct_meses_saldo_neg_6m |-> [num |-> neg_months, den |-> 6]]

\* the dates the statistics are asked on and the transactions upstream
\* may answer with
\* the Gregorian calendar of datetime.date
IsLeap(y) == y % 4 = 0 /\ (y % 100 # 0 \/ y % 400 = 0)

DaysInMonth(y, m) ==
    IF m = 2 THEN (IF IsLeap(y) THEN 29 ELSE 28)
    ELSE IF m \in {4, 6, 9, 11} THEN 30 ELSE 31

\* date(y, m, d): the date, or ValueError('day is out of range for month')
DateOf(y, m, d) ==
    IF m \in 1..12 /\ d \in 1..DaysInMonth(y, m)
    THEN [raises |-> "none", y |-> y, m |-> m, d |-> d]
    ELSE [raises |-> "ValueError", y |-> 0, m |-> 0, d |-> 0]

\* inicio_janela_12m = date(today.year - 1, today.month, today.day)
InicioJanela12m(today) == DateOf(today.y - 1, today.m, today.d)

\* what build_features_for_borrower computes from the current date alone:
\* the month windows of the income and card statistics and the start of the
\* twelve-month window of the days past due; the error leaves the function
WindowDates(today) ==
    LET inicio == InicioJanela12m(today)
    IN  [months6 |-> LastNMonths(6, today.y, today.m),
         ym_3m |-> LastNMonths(3, today.y, today.m),
         inicio |-> inicio,
         returns |-> IF inicio.raises = "none" THEN "features" ELSE inicio.raises]

\* current dates: the first months of a year, the ends of months, leap days
WindowDays ==
    {[y |-> y, m |-> m, d |-> d] :
        y \in {2023, 2024, 2100}, m \in {1, 2, 3, 6, 12}, d \in {1, 28, 29, 30, 31}}

WindowArgs == {[today |-> t] : t \in {w \in WindowDays : w.d <= DaysInMonth(w.y, w.m)}}

StatDays == {Month(2024, 2), Month(2024, 7)}
StatTxs ==
    {Tx(TRUE, ym, a, c) :
        ym \in {Month(2023, 8), Month(2023, 9), Month(2023, 12), Month(2024, 1),
                Month(2024, 2), Month(2024, 7), Month(2024, 8)},
        a \in {1000, 2000}, c \in {"CREDIT", "DEBIT"}}
    \cup {Tx(FALSE, Month(0, 0), 1000, "CREDIT"), Tx(TRUE, Month(2024, 2), 1000, "")}
StatArgs ==
    [today : StatDays,
     txs : {<<>>} \cup {<<a>> : a \in StatTxs} \cup {<<a, b>> : a \in StatTxs, b \in StatTxs}]

\* one loan installment as the loop sees it: dueDate and the paymentDate of
\* payments_by_inst as day numbers (date.toordinal), has_pay FALSE when no
\* payment carries its instalmentId, has_due and has_amt FALSE when dueDate
\* or amount is missing or empty
Inst(due, status, has_pay, pay, has_due, has_amt) ==
    [due |-> due, status |-> status, has_pay |-> has_pay, pay |-> pay,
     has_due |-> has_due, has_amt |-> has_amt]

\* days from inicio_janela_12m to today in a common year
YearDays == 365

RECURSIVE DpdLoop(_, _, _, _)
\* the loop over the installments (lines 408-431), for DPD_max_12m
DpdLoop(insts, i, today, dpd_max) ==
    IF i > Len(insts) THEN dpd_max
    ELSE LET inst == insts[i]
             nxt ==
               IF ~inst.has_due \/ ~inst.has_amt THEN dpd_max
               ELSE IF inst.due >= today - YearDays
               THEN IF inst.status = "PAID" /\ inst.has_pay
                    THEN Max2(dpd_max, Max2(0, inst.pay - inst.due))
                    ELSE IF inst.due < today
                         THEN Max2(dpd_max, today - inst.due)
                         ELSE dpd_max
               ELSE dpd_max
         IN  DpdLoop(insts, i + 1, today, nxt)

\* DPD_max_12m = int(dpd_max), dpd_max starting at 0 (lines 383, 434)
DPD_max_12m(insts, today) == DpdLoop(insts, 1, today, 0)

\* the day the features are built on, and the installments upstream may
\* answer with
DpdToday == 1000
DpdInsts ==
    {Inst(DpdToday + d, s, p[1], DpdToday + d + p[2], TRUE, a) :
        d \in {-400, -100, -10, 5},
        s \in {"PAID", "PENDING"},
        p \in {<<FALSE, 0>>, <<TRUE, -3>>, <<TRUE, 20>>},
        a \in BOOLEAN}
DpdArgs ==
    [today : {DpdToday},
     insts : {<<>>} \cup {<<a>> : a \in DpdInsts} \cup {<<a, b>> : a \in DpdInsts, b \in DpdInsts}]

\* overrides sent with a simulation: key -> [null, v]
OvNone == [k \in {} |-> [null |-> FALSE, v |-> 0]]
OvIncome == [k \in {"renda_media_6m"} |-> [null |-> FALSE, v |-> 1000]]
OvNullAndForeign ==
    [k \in {"idade", "cor_favorita"} |->
        IF k = "idade" THEN [null |-> TRUE, v |-> 0] ELSE [null |-> FALSE, v |-> 5]]

\* the values computed from the upstream answers (lines 437-453); the keys
\* this model does not aggregate carry the least value the code can give them
ComputedFeatures(u) ==
    [k \in FEATURE_ORDER |->
        CASE k = "beneficio_ativo" -> u.beneficio_ativo
          [] k = "emprego_ativo" -> u.emprego_ativo
          [] k = "renda_media_6m" -> u.credits \div 6
          [] k \in {"tempo_beneficio_meses", "tempo_emprego_meses",
                     "tempo_rel_banco_meses"} -> 1
          [] k = "idade" -> 18
          [] OTHER -> 0]

\* variant that takes an override whatever its value
ApplyOverridesAnyValue(f, ov) ==
    [k \in DOMAIN f |-> IF k \in DOMAIN ov THEN ov[k].v ELSE f[k]]
\* for k, v in overrides.items(): if k in features and v is not None
ApplyOverrides(f, ov) ==
    [k \in DOMAIN f |->
        IF k \in DOMAIN ov /\ ~ov[k].null THEN ov[k].v ELSE f[k]]

\* 7) the vector, the overrides, the final key test (lines 436-472); the
\* call returns, and its locals and the record of its requests end with it
AssembleFeatures ==
    /\ pc = "fb_assemble"
    /\ LET f == ApplyOverrides(ComputedFeatures(up), req.overrides)
       IN  IF FEATURE_ORDER \subseteq DOMAIN f
           THEN /\ features' = f
                /\ exc' = "none"
                /\ pc' = "sim_post"
                /\ calls' = <<>>
                /\ up' = UpInit
           ELSE /\ features' = features
                /\ exc' = "FeatureBuildError"
                /\ pc' = "fb_raised"
                /\ UNCHANGED <<calls, up>>
    /\ UNCHANGED <<cfgVars, stages, sv, risk, offers, elig, resp, scConf, caps, regVars, calcVars, dbVars>>

(***************************************************************************)
(* score_view (risk/views.py)                                              *)
(***************************************************************************)
NoResult ==
    [pd |-> PdZero, score |-> 0, band |-> "none", rate_monthly |-> 0,
     terms |-> FALSE, installment_null |-> TRUE, installment |-> 0,
     cet |-> "absent", fees_error |-> FALSE]

NoRisk == [status |-> 0, result |-> NoResult]

SvInit ==
    [row |-> NoVector, ambos |-> 0, invoked |-> FALSE, pd |-> PdZero, score |-> 0,
     band |-> "none", rate |-> 0]

NoResp == [status |-> 0, what |-> "pending", fields |-> {}]

\* the features the view reads: the payload's, which for a simulation is the
\* vector build_features_for_borrower returned
PayloadFeatures == IF kind = "simulation" THEN features ELSE req.features

\* score_view returns: to the client, or to the simulation that posted
SvReturn(status, result) ==
    /\ risk' = [status |-> status, result |-> result]
    /\ IF kind = "score"
       THEN /\ pc' = "done"
            /\ resp' = [status |-> status,
                        what |-> IF status = 200 THEN "score_ok"
                                 ELSE IF status = 400 THEN "bad_request"
                                 ELSE "server_error",
                        fields |-> IF status = 200
                                   THEN {"pd", "score", "band", "rate_monthly"}
                                   ELSE {}]
       ELSE /\ pc' = "sim_risk"
            /\ resp' = resp

\* the method test, json.loads and ScoreRequest.from_json (lines 12-18)
SvParse ==
    /\ pc = "sv_parse"
    /\ IF req.payload = "ok"
       THEN /\ pc' = "sv_row"
            /\ UNCHANGED <<risk, resp>>
       ELSE SvReturn(400, NoResult)
    /\ UNCHANGED <<cfgVars, stages, fbVars, sv, offers, elig, scConf, caps, regVars, calcVars, dbVars>>

\* float(f.get(c, 0.0)): a key absent from the features reads as 0.0
\* (ScoreRequest.to_feature_vector, which raises on one, is never called)
RowValue(f, c) == IF c \in DOMAIN f THEN f[c] ELSE 0

\* the 16-column row (lines 20-49); float() of a value that is no number
\* raises and nothing catches it
SvBuildRow ==
    /\ pc = "sv_row"
    /\ LET f == PayloadFeatures
           ambos == IF RowValue(f, "beneficio_ativo") # 0 /\ RowValue(f, "emprego_ativo") # 0
                    THEN 1 ELSE 0
       IN  IF req.nonnumeric THEN SvReturn(500, NoResult) /\ sv' = sv
           ELSE /\ sv' = [sv EXCEPT !.row = [c \in FEATURE_ORDER |-> RowValue(f, c)],
                                    !.ambos = ambos]
                /\ pc' = "sv_predict"
                /\ UNCHANGED <<risk, resp>>
    /\ UNCHANGED <<cfgVars, stages, fbVars, offers, elig, scConf, caps, regVars, calcVars, dbVars>>

\* 1) registry.get_pd_model() and predict_proba (lines 51-53)
SvPredict ==
    /\ pc = "sv_predict"
    /\ stages' = Append(stages, "probability")
    /\ \/ /\ SvReturn(500, NoResult)
          /\ sv' = sv
       \/ \E p \in PdValues :
          /\ sv' = [sv EXCEPT !.invoked = TRUE, !.pd = p]
          /\ pc' = "sv_score"
          /\ UNCHANGED <<risk, resp>>
    /\ UNCHANGED <<cfgVars, fbVars, offers, elig, scConf, caps, regVars, calcVars, dbVars>>

\* 2) registry.get_scorecard() and score_and_band (lines 55-57)
SvScore ==
    /\ pc = "sv_score"
    /\ stages' = Append(stages, "score")
    /\ \/ /\ SvReturn(500, NoResult)
          /\ sv' = sv
          /\ scConf' = scConf
       \/ \E conf \in ScorecardConfs :
          LET sb == score_and_band(conf, sv.pd)
          IN  /\ scConf' = conf
              /\ IF sb.raised # "none"
                 THEN SvReturn(500, NoResult) /\ sv' = sv
                 ELSE /\ sv' = [sv EXCEPT !.score = sb.score, !.band = sb.band]
                      /\ pc' = "sv_price"
                      /\ UNCHANGED <<risk, resp>>
    /\ UNCHANGED <<cfgVars, fbVars, offers, elig, caps, regVars, calcVars, dbVars>>

\* 3) registry.get_pricing() and suggest_rate (lines 59-61)
SvPrice ==
    /\ pc = "sv_price"
    /\ stages' = Append(stages, "price")
    /\ \/ /\ SvReturn(500, NoResult)
          /\ sv' = sv
          /\ caps' = caps
       \/ \E y \in CurveRates, cp \in CapsConfs :
          /\ caps' = cp
          /\ sv' = [sv EXCEPT !.rate = ClipRate(cp, y)]
          /\ pc' = "sv_pmt"
          /\ UNCHANGED <<risk, resp>>
    /\ UNCHANGED <<cfgVars, fbVars, offers, elig, scConf, regVars, calcVars, dbVars>>

\* the result before the installment block (lines 64-72)
BaseResult(s) ==
    [NoResult EXCEPT !.pd = s.pd, !.score = s.score, !.band = s.band,
                     !.rate_monthly = s.rate]

\* the except branch (lines 88-92)
FeesErrorResultKeepingInstallment(res) ==
    [res EXCEPT !.terms = TRUE, !.cet = "null", !.fees_error = TRUE]
FeesErrorResult(res) ==
    [res EXCEPT !.terms = TRUE, !.installment_null = TRUE, !.installment = 0,
                !.cet = "null", !.fees_error = TRUE]

\* the try block (lines 75-87): the results it can leave
InstallmentBlock(res, amount, term, fees) ==
    LET pmt == pmt_price(res.rate_monthly, term, amount)
    IN  IF pmt.raised # "none" THEN {FeesErrorResult(res)}
        ELSE LET withPmt == [res EXCEPT !.terms = TRUE, !.installment_null = FALSE,
                                        !.installment = RoundCents(pmt.num, pmt.den)]
             IN  {IF c.raised # "none" THEN FeesErrorResult(withPmt)
                  ELSE [withPmt EXCEPT !.cet = c.kind] :
                     c \in cet_from_flows(amount, res.rate_monthly, term, fees)}

\* the keys of the JSON object the view answers with (lines 64-92)
ResultKeys(res) ==
    {"pd", "score", "band", "rate_monthly", "rate_yearly_eff", "model", "pricing"}
    \cup (IF res.terms THEN {"installment", "cet_monthly", "cet_yearly"} ELSE {})
    \cup (IF res.terms /\ ~res.fees_error THEN {"fees"} ELSE {})
    \cup (IF res.fees_error THEN {"fees_error"} ELSE {})

\* 4) installment and CET when amount and term_months came, and the
\* response (lines 64-94)
SvPmtCet ==
    /\ pc = "sv_pmt"
    /\ IF req.has_amount /\ req.has_term
       THEN /\ stages' = Append(stages, "installment_cet")
            /\ \E res \in InstallmentBlock(BaseResult(sv), req.amount,
                                           req.term_months, req.fees) :
                SvReturn(200, res)
       ELSE /\ stages' = stages
            /\ SvReturn(200, BaseResult(sv))
    /\ UNCHANGED <<cfgVars, fbVars, sv, offers, elig, scConf, caps, regVars, calcVars, dbVars>>

(***************************************************************************)
(* borrower_create_simulation (consign_app/api/views.py)                   *)
(***************************************************************************)
MinAmount == 1000
MinTerm == 6
MaxTerm == 72
MaxIncomeRatioPct == 35
MinBand == "D"

NoElig == [eligible |-> FALSE, reasons |-> <<>>, band |-> "none",
           installment |-> 0, renda_mensal |-> 0]

Respond(status, what, fields) ==
    /\ resp' = [status |-> status, what |-> what, fields |-> fields]
    /\ pc' = "done"

\* SimulationCreateSerializer (serializers.py, lines 592-597)
SimValidate ==
    /\ pc = "sim_validate"
    /\ IF req.amount >= MinAmount /\ req.term_months >= MinTerm
          /\ req.term_months <= MaxTerm
       THEN pc' = "fb_beneficios" /\ resp' = resp
       ELSE Respond(400, "bad_request", {"errors"})
    /\ UNCHANGED <<cfgVars, stages, fbVars, sv, risk, offers, elig, scConf, caps, regVars, calcVars, dbVars>>

\* what the view does with an exception of build_features_for_borrower:
\* `except FeatureBuildError` answers 400, any other type is not caught and
\* the framework answers 500 (lines 488-497)
SimFeatureErrorSwallowed ==
    /\ pc = "fb_raised"
    /\ pc' = "sim_post"
    /\ UNCHANGED <<cfgVars, stages, fbVars, sv, risk, offers, elig, resp, scConf, caps, regVars, calcVars, dbVars>>
SimFeatureError ==
    /\ pc = "fb_raised"
    /\ IF exc = "FeatureBuildError"
       THEN Respond(400, "feature_error", {"detail"})
       ELSE Respond(500, "server_error", {})
    /\ UNCHANGED <<cfgVars, stages, fbVars, sv, risk, offers, elig, scConf, caps, regVars, calcVars, dbVars>>

\* requests.post(risk_url, ...) (lines 517-524): the request does not get
\* through, or score_view handles it
SimPostScore ==
    /\ pc = "sim_post"
    /\ \/ Respond(502, "score_error", {"detail"})
       \/ pc' = "sv_parse" /\ resp' = resp
    /\ UNCHANGED <<cfgVars, stages, fbVars, sv, risk, offers, elig, scConf, caps, regVars, calcVars, dbVars>>

\* r.raise_for_status(); risk = r.json() (lines 520-524)
SimRiskReceived ==
    /\ pc = "sim_risk"
    /\ IF risk.status = 200
       THEN pc' = "sim_offer" /\ resp' = resp
       ELSE Respond(502, "score_error", {"detail"})
    /\ UNCHANGED <<cfgVars, stages, fbVars, sv, risk, offers, elig, scConf, caps, regVars, calcVars, dbVars>>

\* the Decimal conversions and LoanOffer.objects.create (lines 526-548):
\* risk.get("cet_yearly", apr) is None when the key is there with null, and
\* Decimal("None") raises InvalidOperation, which nothing catches
SimCreateOffer ==
    /\ pc = "sim_offer"
    /\ IF risk.result.cet = "null"
       THEN Respond(500, "server_error", {}) /\ offers' = offers
       ELSE /\ offers' = offers + 1
            /\ pc' = "sim_elig"
            /\ resp' = resp
    /\ UNCHANGED <<cfgVars, stages, fbVars, sv, risk, elig, scConf, caps, regVars, calcVars, dbVars>>

\* the installment handed to analyze_eligibility (lines 550-561, 577-584)
SimInstallment ==
    IF ~risk.result.installment_null THEN risk.result.installment
    ELSE LET pmt == pmt_price(risk.result.rate_monthly, req.term_months, req.amount)
         IN  RoundCents(pmt.num, pmt.den)

\* analyze_eligibility and the two responses (lines 572-618)
SimEligibility ==
    /\ pc = "sim_elig"
    /\ stages' = Append(stages, "eligibility")
    /\ LET renda == features["renda_media_6m"]
       IN  IF renda <= 0
           THEN /\ elig' = elig
                /\ \/ Respond(400, "eligibility_error", {"detail"})
                   \/ Respond(500, "server_error", {})
           ELSE LET e == evaluate(risk.result.band, SimInstallment, renda,
                                  MinBand, MaxIncomeRatioPct)
                IN  /\ elig' = e
                    /\ IF e.eligible
                       THEN Respond(201, "created",
                                    {"offer_id", "rate", "band", "cet", "apr",
                                     "preview_installments", "external_reference"})
                       ELSE Respond(400, "denied",
                                    {"detail", "reasons", "band", "installment",
                                     "renda_mensal", "thresholds"})
    /\ UNCHANGED <<cfgVars, fbVars, sv, risk, offers, scConf, caps, regVars, calcVars, dbVars>>

(***************************************************************************)
(* Requests                                                                *)
(***************************************************************************)
FullVector ==
    [k \in FEATURE_ORDER |->
        CASE k \in {"beneficio_ativo", "emprego_ativo"} -> 1
          [] k = "renda_media_6m" -> 1000
          [] k = "idade" -> 40
          [] OTHER -> 1]

Without(f, key) == [k \in (DOMAIN f) \ {key} |-> f[k]]

BigUpfront == [NoFees EXCEPT !.upfront = 5000]
MonthlyFee == [NoFees EXCEPT !.monthly = 10]

SimRequests ==
    [amount : {2100, 2106}, term_months : {5, 6}, has_amount : {TRUE},
     has_term : {TRUE}, fees : {NoFees}, features : {NoVector},
     overrides : {OvNone, OvIncome, OvNullAndForeign}, payload : {"ok"},
     nonnumeric : {FALSE}]

ScoreRequests ==
    [amount : {2100}, term_months : {0 - 1, 0, 1, 2, 6}, has_amount : {TRUE},
     has_term : BOOLEAN, fees : {NoFees, BigUpfront, MonthlyFee, BadFees},
     features : {FullVector, Without(FullVector, "idade"), NoVector},
     overrides : {OvNone}, payload : {"ok"}, nonnumeric : {FALSE}]
    \cup
    [amount : {2100}, term_months : {6}, has_amount : {FALSE},
     has_term : {FALSE}, fees : {NoFees}, features : {FullVector},
     overrides : {OvNone}, payload : {"ok", "bad_json", "no_features"},
     nonnumeric : BOOLEAN]

RequestIdle ==
    /\ kind = "none"
    /\ req = CHOOSE r \in ScoreRequests : TRUE
    /\ scConf = NoConf
    /\ caps = NoCaps
    /\ pc = "done"
    /\ stages = <<>>
    /\ calls = <<>>
    /\ up = UpInit
    /\ exc = "none"
    /\ features = NoVector
    /\ sv = SvInit
    /\ risk = NoRisk
    /\ offers = 0
    /\ elig = NoElig
    /\ resp = NoResp

\* no calculator is being applied
NoArg == [none |-> 0]
NoOut == [none |-> 0]

\* the LoanOffer rows: offer -> email of its borrower
OfferOwner == [o \in {1, 2, 3} |-> IF o = 1 THEN "ana" ELSE "bia"]
OfferIds == DOMAIN OfferOwner

NoCall == [user |-> [email |-> "", is_staff |-> FALSE], offer |-> 0, code |-> 0,
           changed |-> FALSE]

\* the offers as borrower_create_simulation leaves them, and no request yet
DbIdle ==
    /\ offerStatus = [o \in OfferIds |-> "draft"]
    /\ lastCall = NoCall

CalcIdle ==
    /\ fn = "none"
    /\ arg = NoArg
    /\ out = NoOut
    /\ applied = TRUE

Init ==
    /\ RegistryInit
    /\ CalcIdle
    /\ DbIdle
    /\ kind \in {"simulation", "score"}
    /\ req \in IF kind = "simulation" THEN SimRequests ELSE ScoreRequests
    /\ scConf = NoConf
    /\ caps = NoCaps
    /\ pc = IF kind = "simulation" THEN "sim_validate" ELSE "sv_parse"
    /\ stages = <<>>
    /\ calls = <<>>
    /\ up = UpInit
    /\ exc = "none"
    /\ features = NoVector
    /\ sv = SvInit
    /\ risk = NoRisk
    /\ offers = 0
    /\ elig = NoElig
    /\ resp = NoResp

Next ==
    \/ SimValidate
    \/ FetchBeneficios
    \/ FetchRelacoes
    \/ FetchIdent
    \/ FetchAccounts
    \/ FetchAccountTx
    \/ FetchCards
    \/ FetchBills
    \/ FetchBillTx
    \/ FetchLoans
    \/ FetchInstallments
    \/ FetchPayments
    \/ AssembleFeatures
    \/ SimFeatureError
    \/ SimPostScore
    \/ SvParse
    \/ SvBuildRow
    \/ SvPredict
    \/ SvScore
    \/ SvPrice
    \/ SvPmtCet
    \/ SimRiskReceived
    \/ SimCreateOffer
    \/ SimEligibility

Spec == Init /\ [][Next]_vars

InitRegistry == RegistryInit /\ RequestIdle /\ CalcIdle /\ DbIdle

SpecRegistry == InitRegistry /\ [][RegistryNext]_vars

(***************************************************************************)
(* The calculators applied to given inputs                                 *)
(***************************************************************************)
\* probabilities given to the scorecard: those of the classifier and some
\* that lie half a score point apart
CalcPds == PdValues \cup {Pd(0), Pd(2), Pd(3)}

ScorecardArgs == [conf : ScorecardConfs, pd1 : CalcPds, pd2 : CalcPds]
RoundTripArgs == [conf : ScorecardConfs, pd : CalcPds]

SuggestArgs == [art : Artifacts, caps : PricingCaps, pd1 : PricingPds, pd2 : PricingPds]

UeTerms == {0, 1, 12, 24, 72}
UeArgs == [caps : PricingCaps, ue : UeConfs, pd : PricingPds, n : UeTerms]

\* principals, rates (whole multiples of 100 %) and terms of the Price calls
PriceArgs ==
    [pv : {1, 1000, 2100, 2106}, r : {0, 1, 2}, n : {-1, 0, 1, 2, 3, 6}]
    \cup [pv : {1000, 2100}, r : {0, 1}, n : {54, 72}]

\* contracts whose CET is asked for, without fees
CetArgs ==
    [pv : {1000, 2100}, r : {0, 1}, n : {1, 6}]
    \cup [pv : {1000, 2100}, r : {0}, n : {72, 84}]
    \cup [pv : {1000000}, r : {0}, n : {80, 81, 84}]

CalcFns == {"pd_to_score", "score_to_pd", "suggest_rate", "unit_economics",
            "pmt_price", "amortization_schedule", "cet_from_flows",
            "income_stats", "DPD_max_12m", "band_of", "window_dates"}

CalcInputs(f) ==
    CASE f = "pd_to_score" -> ScorecardArgs
      [] f = "score_to_pd" -> RoundTripArgs
      [] f = "suggest_rate" -> SuggestArgs
      [] f = "unit_economics" -> UeArgs
      [] f = "pmt_price" -> PriceArgs
      [] f = "amortization_schedule" -> PriceArgs
      [] f = "cet_from_flows" -> CetArgs
      [] f = "income_stats" -> StatArgs
      [] f = "DPD_max_12m" -> DpdArgs
      [] f = "band_of" -> BandArgs
      [] f = "window_dates" -> WindowArgs

InitCalc ==
    /\ RegistryInit
    /\ RequestIdle
    /\ DbIdle
    /\ fn \in CalcFns
    /\ arg \in CalcInputs(fn)
    /\ out = NoOut
    /\ applied = FALSE

\* Scorecard.pd_to_score on two probabilities
ApplyPdToScore ==
    /\ fn = "pd_to_score" /\ ~applied
    /\ out' = [s1 |-> pd_to_score(arg.conf, arg.pd1),
               s2 |-> pd_to_score(arg.conf, arg.pd2)]
    /\ applied' = TRUE
    /\ UNCHANGED <<fn, arg, regVars, reqVars, dbVars>>

\* Scorecard.score_to_pd on the score pd_to_score gave
ApplyScoreToPd ==
    /\ fn = "score_to_pd" /\ ~applied
    /\ LET s == pd_to_score(arg.conf, arg.pd)
       IN  out' = [score |-> s.score, back |-> score_to_pd(arg.conf, s.score)]
    /\ applied' = TRUE
    /\ UNCHANGED <<fn, arg, regVars, reqVars, dbVars>>

\* _PricingWrapper.suggest_rate on two probabilities
ApplySuggestRate ==
    /\ fn = "suggest_rate" /\ ~applied
    /\ out' = [r1 |-> suggest_rate(arg.art, arg.caps, arg.pd1),
               r2 |-> suggest_rate(arg.art, arg.caps, arg.pd2)]
    /\ applied' = TRUE
    /\ UNCHANGED <<fn, arg, regVars, reqVars, dbVars>>

\* _PricingWrapper.min_rate and _PricingWrapper.components on one input
ApplyUnitEconomics ==
    /\ fn = "unit_economics" /\ ~applied
    /\ out' = [min_rate |-> min_rate(arg.caps, arg.ue, arg.pd, arg.n),
               components |-> components(arg.caps, arg.ue, arg.pd, arg.n)]
    /\ applied' = TRUE
    /\ UNCHANGED <<fn, arg, regVars, reqVars, dbVars>>

\* pmt_price on one input
ApplyPmtPrice ==
    /\ fn = "pmt_price" /\ ~applied
    /\ out' = pmt_price(arg.r, arg.n, arg.pv)
    /\ applied' = TRUE
    /\ UNCHANGED <<fn, arg, regVars, reqVars, dbVars>>

\* amortization_schedule on one input
ApplyAmortizationSchedule ==
    /\ fn = "amortization_schedule" /\ ~applied
    /\ \E e \in PmtRoundings(arg.r, arg.n, arg.pv) :
          out' = amortization_schedule(arg.pv, arg.r, arg.n, e)
    /\ applied' = TRUE
    /\ UNCHANGED <<fn, arg, regVars, reqVars, dbVars>>

\* cet_from_flows on one contract, fees = None
ApplyCetFromFlows ==
    /\ fn = "cet_from_flows" /\ ~applied
    /\ \E c \in cet_from_flows(arg.pv, arg.r, arg.n, NoFees) : out' = c
    /\ applied' = TRUE
    /\ UNCHANGED <<fn, arg, regVars, reqVars, dbVars>>

\* the income statistics of build_features_for_borrower on given transactions
ApplyIncomeStats ==
    /\ fn = "income_stats" /\ ~applied
    /\ out' = IncomeStats(arg.today, arg.txs)
    /\ applied' = TRUE
    /\ UNCHANGED <<fn, arg, regVars, reqVars, dbVars>>

\* the days past due of build_features_for_borrower on given installments
ApplyDpd ==
    /\ fn = "DPD_max_12m" /\ ~applied
    /\ out' = [dpd |-> DPD_max_12m(arg.insts, arg.today)]
    /\ applied' = TRUE
    /\ UNCHANGED <<fn, arg, regVars, reqVars, dbVars>>

\* Scorecard.band_of on two scores
ApplyBandOf ==
    /\ fn = "band_of" /\ ~applied
    /\ out' = [b1 |-> band_of([bands |-> arg.bands], arg.s1),
               b2 |-> band_of([bands |-> arg.bands], arg.s2)]
    /\ applied' = TRUE
    /\ UNCHANGED <<fn, arg, regVars, reqVars, dbVars>>

\* the date arithmetic of build_features_for_borrower on a given current date
ApplyWindowDates ==
    /\ fn = "window_dates" /\ ~applied
    /\ out' = WindowDates(arg.today)
    /\ applied' = TRUE
    /\ UNCHANGED <<fn, arg, regVars, reqVars, dbVars>>

NextCalc ==
    \/ ApplyPdToScore
    \/ ApplyScoreToPd
    \/ ApplySuggestRate
    \/ ApplyUnitEconomics
    \/ ApplyPmtPrice
    \/ ApplyAmortizationSchedule
    \/ ApplyCetFromFlows
    \/ ApplyIncomeStats
    \/ ApplyDpd
    \/ ApplyBandOf
    \/ ApplyWindowDates

SpecCalc == InitCalc /\ [][NextCalc]_vars

\* the solver on one series of cash flows
InitIrr ==
    /\ RegistryInit
    /\ RequestIdle
    /\ DbIdle
    /\ fn = "irr_newton_bisection"
    /\ arg \in {c \in IrrCases : c.root % 2 = 0 => c.tolw >= 0}
    /\ out = IrrStart(arg)
    /\ applied = FALSE

NextIrr ==
    \/ NewtonStep
    \/ NewtonExhausted
    \/ ChooseBracket
    \/ BisectStep
    \/ BisectExhausted

SpecIrr == InitIrr /\ [][NextIrr]_vars

(***************************************************************************)
(* api_register_offer (frontend/views.py): logged-in users post to open an *)
(* offer                                                                   *)
(***************************************************************************)
\* request.user of a logged-in session: two borrowers with offers, a user
\* without any, a user without email, a staff member
Users ==
    {[email |-> "ana", is_staff |-> FALSE], [email |-> "bia", is_staff |-> FALSE],
     [email |-> "caio", is_staff |-> FALSE], [email |-> "", is_staff |-> FALSE],
     [email |-> "equipe", is_staff |-> TRUE]}

\* an offer_id no LoanOffer has
UnknownOffer == 99

\* getattr(request.user, 'email', None) and
\* LoanOffer.objects.filter(borrower__email=request.user.email).exists()
IsBorrower(u) == u.email # "" /\ \E o \in OfferIds : OfferOwner[o] = u.email

\* one POST by user u for offer_id o (lines 406-435); the flags say whether
\* the query of the borrower test, or the save, raises
ApiRegisterOffer(u, o, queryRaises, saveRaises) ==
    IF o \notin OfferIds
    THEN /\ lastCall' = [user |-> u, offer |-> o, code |-> 404, changed |-> FALSE]
         /\ offerStatus' = offerStatus
    ELSE LET borrower == IF queryRaises THEN FALSE ELSE IsBorrower(u)
         IN  IF ~(u.is_staff \/ borrower)
             THEN /\ lastCall' = [user |-> u, offer |-> o, code |-> 403,
                                  changed |-> FALSE]
                  /\ offerStatus' = offerStatus
             ELSE IF saveRaises
             THEN /\ lastCall' = [user |-> u, offer |-> o, code |-> 500,
                                  changed |-> FALSE]
                  /\ offerStatus' = offerStatus
             ELSE /\ lastCall' = [user |-> u, offer |-> o, code |-> 200,
                                  changed |-> offerStatus[o] # "open"]
                  /\ offerStatus' = [offerStatus EXCEPT ![o] = "open"]

RegisterOffer ==
    /\ \E u \in Users, o \in OfferIds \cup {UnknownOffer},
          queryRaises \in BOOLEAN, saveRaises \in BOOLEAN :
          ApiRegisterOffer(u, o, queryRaises, saveRaises)
    /\ UNCHANGED <<regVars, reqVars, calcVars>>

InitOffers == RegistryInit /\ RequestIdle /\ CalcIdle /\ DbIdle

NextOffers == RegisterOffer

SpecOffers == InitOffers /\ [][NextOffers]_vars

(***************************************************************************)
(* Claims                                                                  *)
(***************************************************************************)
StageOrder ==
    <<"features", "probability", "score", "price", "installment_cet", "eligibility">>

IsPrefix(s, q) == Len(s) <= Len(q) /\ \A i \in 1..Len(s) : s[i] = q[i]

Range(s) == {s[i] : i \in 1..Len(s)}

DecisionFields == {"pd", "score", "band", "rate", "rate_monthly", "reasons",
                   "eligible", "installment", "offer_id"}

FailedKinds == {"bad_request", "feature_error", "score_error",
                "eligibility_error", "server_error"}

(***************************************************************************)
(* C1: a simulation runs its stages only in the order feature build,       *)
(* probability, score, price, installment/CET, eligibility; it answers     *)
(* once, when it is done, with a decision (created or denied) after all    *)
(* six stages or with a failure; after a failure of the feature build or   *)
(* of the scoring call no later stage has run, and a failure response      *)
(* carries no score, rate or eligibility decision.                         *)
(***************************************************************************)
C1_StagesInOrder ==
    kind = "simulation" =>
        /\ IsPrefix(stages, StageOrder)
        /\ (pc = "done") = (resp # NoResp)
        /\ resp # NoResp =>
              /\ resp.what \in {"created", "denied"} \cup FailedKinds
              /\ resp.what \in {"created", "denied"} =>
                    (stages = StageOrder /\ elig # NoElig)
              /\ resp.what \in FailedKinds =>
                    (resp.fields \cap DecisionFields = {} /\ elig = NoElig)
        /\ exc # "none" => (stages = <<"features">> /\ risk = NoRisk /\ elig = NoElig)
        /\ risk.status \notin {0, 200} =>
              /\ stages[Len(stages)] \in {"probability", "score", "price"}
              /\ elig = NoElig
              /\ pc = "done" => resp.what = "score_error"

\* the scorecard stage of a simulation failed: the request is over with a
\* failure and neither the price nor any later stage ran
C1_Witness ==
    /\ kind = "simulation"
    /\ pc = "done"
    /\ resp.what = "score_error"
    /\ stages = <<"features", "probability", "score">>

(***************************************************************************)
(* C2: build_features_for_borrower ends with the complete vector of 15     *)
(* keys or with a FeatureBuildError, whatever the upstream answers (as     *)
(* claimed; refuted by a timeout, a JSON root that is no object, a         *)
(* malformed date of an installment or a payment).                         *)
(***************************************************************************)
C2_OnlyFeatureBuildError ==
    /\ exc \in {"none", "FeatureBuildError"}
    /\ features # NoVector => DOMAIN features = FEATURE_ORDER

(***************************************************************************)
(* C4: when amount and term_months came and the installment or the CET     *)
(* computation raises (term_months <= 0, a fee that is no number), the     *)
(* view still answers 200 with the pd, score, band and rate it computed,   *)
(* installment and CET null and fees_error set.                            *)
(***************************************************************************)
C4_FeesErrorRecovered ==
    (/\ risk.status # 0
     /\ "installment_cet" \in Range(stages)
     /\ (req.term_months <= 0 \/ FeesRaise(req.fees)))
    => /\ risk.status = 200
       /\ risk.result.pd = sv.pd
       /\ risk.result.score = sv.score
       /\ risk.result.band = sv.band /\ sv.band \in Bands
       /\ risk.result.rate_monthly = sv.rate
       /\ risk.result.installment_null
       /\ risk.result.cet = "null"
       /\ risk.result.fees_error

\* the installment was computed (term 6) and the CET raised on the fees
C4_Witness ==
    /\ kind = "score"
    /\ req.term_months > 0
    /\ FeesRaise(req.fees)
    /\ risk.status = 200
    /\ risk.result.fees_error

(***************************************************************************)
(* C5: when the net present value changes sign neither on (-0.9999, 1.0)   *)
(* nor on (-0.9999, 3.0), the response has a null CET and a diagnostic (as *)
(* claimed; the solver returns its initial guess, which the view reports   *)
(* as the CET).                                                            *)
(***************************************************************************)
C5_NoBracketSurfaced ==
    (/\ risk.status = 200
     /\ risk.result.terms
     /\ req.term_months > 0
     /\ ~FeesRaise(req.fees)
     /\ risk.result.cet # "newton_root"
     /\ LET flows == CashFlows(req.amount,
                               pmt_price(sv.rate, req.term_months, req.amount),
                               req.term_months, req.fees)
        IN  SameSignOn(flows, BracketHigh) /\ SameSignOn(flows, BracketHighExpanded))
    => (risk.result.cet = "null" /\ risk.result.fees_error)

(***************************************************************************)
(* C6: inside one build_features_for_borrower call no upstream request is  *)
(* issued twice, and a request that failed (timeout, status not 2xx, body  *)
(* no JSON) is the last one issued.                                        *)
(***************************************************************************)
C6_NoRetryNoCallAfterFailure ==
    /\ \A a, b \in 1..Len(calls) :
          (calls[a].name = calls[b].name /\ calls[a].i = calls[b].i
           /\ calls[a].j = calls[b].j) => a = b
    /\ \A a \in 1..Len(calls) : calls[a].outcome \in Transport => a = Len(calls)
    /\ (Len(calls) > 0 /\ calls[Len(calls)].outcome \in Transport) => pc \in {"fb_raised", "done"}

\* the payments request of a contract timed out after the eight or more
\* requests before it had been answered
C6_Witness ==
    /\ Len(calls) >= 9
    /\ calls[Len(calls)].name = "loan_pay"
    /\ calls[Len(calls)].outcome = "timeout"
    /\ pc = "fb_raised"

(***************************************************************************)
(* C7: the classifier is invoked only for requests whose features hold all *)
(* 15 keys (as claimed; the view fills a missing key with 0.0).            *)
(***************************************************************************)
C7_MissingKeyRejected ==
    sv.invoked => FEATURE_ORDER \subseteq DOMAIN PayloadFeatures

(***************************************************************************)
(* C8: once eligibility has been evaluated, reasons holds the band reason  *)
(* exactly when the band is below D and the income reason exactly when the *)
(* installment exceeds 35 % of the income, the band reason first, and      *)
(* eligible is true exactly when reasons is empty.                         *)
(***************************************************************************)
C8_ReasonsAccumulate ==
    elig # NoElig =>
        LET bandFails == elig.band \in {"E"}
            incomeFails == elig.installment > MaxIncomeRatioPct * elig.renda_mensal
        IN  /\ elig.band = risk.result.band
            /\ elig.installment = risk.result.installment
            /\ elig.renda_mensal = features["renda_media_6m"]
            /\ ("score_insuficiente(<D)" \in Range(elig.reasons)) = bandFails
            /\ ("parcela_acima_35pct_renda" \in Range(elig.reasons)) = incomeFails
            /\ Len(elig.reasons) = (IF bandFails THEN 1 ELSE 0) + (IF incomeFails THEN 1 ELSE 0)
            /\ (bandFails /\ incomeFails) => elig.reasons[1] = "score_insuficiente(<D)"
            /\ elig.eligible = (elig.reasons = <<>>)
            /\ (resp.what = "created") = elig.eligible
            /\ (resp.what = "denied") = ~elig.eligible

\* both rules failed and both reasons were reported
C8_Witness ==
    /\ elig.reasons = <<"score_insuficiente(<D)", "parcela_acima_35pct_renda">>
    /\ resp.what = "denied"

(***************************************************************************)
(* C9: the income rule fails exactly when installment / income > 0.35:     *)
(* installment 350.00 on income 1000 passes, 351.00 fails.                 *)
(***************************************************************************)
C9_IncomeRuleInclusive ==
    (elig # NoElig /\ elig.renda_mensal > 0) =>
        /\ ("parcela_acima_35pct_renda" \in Range(elig.reasons))
              = (elig.installment > MaxIncomeRatioPct * elig.renda_mensal)
        /\ (elig.installment = 35000 /\ elig.renda_mensal = 1000)
              => "parcela_acima_35pct_renda" \notin Range(elig.reasons)
        /\ (elig.installment = 35100 /\ elig.renda_mensal = 1000)
              => (~elig.eligible /\ "parcela_acima_35pct_renda" \in Range(elig.reasons))

\* the installment is exactly 35 % of the income and the offer is made
C9_Witness ==
    /\ elig.installment = 35000
    /\ elig.renda_mensal = 1000
    /\ elig.eligible
    /\ resp.what = "created"

(***************************************************************************)
(* C10: for the probability the classifier returned, 0 and 1 included,     *)
(* score_and_band raises nothing under any configuration and gives a score *)
(* within [score_min, score_max] and a band among A..E; the score and band *)
(* the view goes on with are those.                                        *)
(***************************************************************************)
C10_ScoreInRange ==
    /\ pc = "sv_score" =>
          \A conf \in ScorecardConfs :
              LET sb == score_and_band(conf, sv.pd)
              IN  /\ sb.raised = "none"
                  /\ conf.score_min <= sb.score /\ sb.score <= conf.score_max
                  /\ sb.band \in Bands
    /\ pc = "sv_price" =>
          /\ scConf.score_min <= sv.score /\ sv.score <= scConf.score_max
          /\ sv.band \in Bands

\* the classifier returned the probability 0 and the view has its score
C10_Witness ==
    /\ pc = "sv_price"
    /\ sv.pd = PdZero
    /\ sv.score = scConf.score_max
    /\ sv.band = "A"

\* pd1 < pd2 on carried probabilities
PdLt(p1, p2) == PdLeq(p1, p2) /\ p1 # p2

\* the probability lies within [pd_floor, pd_ceiling]
WithinLimits(conf, pd) == PdLeq(conf.pd_floor, pd) /\ PdLeq(pd, conf.pd_ceiling)

(***************************************************************************)
(* C11: for pd1 < pd2 within [pd_floor, pd_ceiling], pd_to_score(pd1) is   *)
(* at least pd_to_score(pd2).                                              *)
(***************************************************************************)
C11_ScoreMonotone ==
    (/\ fn = "pd_to_score" /\ applied
     /\ WithinLimits(arg.conf, arg.pd1) /\ WithinLimits(arg.conf, arg.pd2)
     /\ PdLt(arg.pd1, arg.pd2))
    => /\ out.s1.raised = "none" /\ out.s2.raised = "none"
       /\ out.s1.score >= out.s2.score

\* two probabilities half a score point apart that round to different scores
C11_Witness ==
    /\ fn = "pd_to_score" /\ applied
    /\ arg.pd1 = Pd(3) /\ arg.pd2 = Pd(2)
    /\ arg.conf.score_max = DefaultScoreMax
    /\ out.s1.score = 602 /\ out.s2.score = 601
(***************************************************************************)
(* C12: the rate suggest_rate returns is at least min_rate_monthly and at  *)
(* most max_rate_monthly, for each of the two caps that is configured.     *)
(***************************************************************************)
C12_RateWithinCaps ==
    (fn = "suggest_rate" /\ applied /\ arg.caps.present) =>
        /\ arg.caps.has_min => arg.caps.min_rate_monthly <= out.r1
        /\ arg.caps.has_max => out.r1 <= arg.caps.max_rate_monthly

\* the curve is below the lower cap at one probability and above the upper
\* cap at the other, and both rates are the caps
C12_Witness ==
    /\ fn = "suggest_rate" /\ applied
    /\ arg.caps.has_min /\ arg.caps.has_max
    /\ CurveValue(arg.art, arg.pd1) < arg.caps.min_rate_monthly
    /\ CurveValue(arg.art, arg.pd2) > arg.caps.max_rate_monthly
    /\ out.r1 = arg.caps.min_rate_monthly
    /\ out.r2 = arg.caps.max_rate_monthly

(***************************************************************************)
(* C13: for pd1 < pd2 the rate suggested for pd1 is at most the rate       *)
(* suggested for pd2, with or without caps.                                *)
(***************************************************************************)
C13_RateMonotone ==
    (fn = "suggest_rate" /\ applied /\ arg.pd1 < arg.pd2) => out.r1 <= out.r2

\* an isotonic curve that rises above the upper cap: the rates are in order
\* and the higher one is the cap
C13_Witness ==
    /\ fn = "suggest_rate" /\ applied
    /\ arg.art.has_iso /\ arg.caps.has_max /\ arg.caps.has_min
    /\ arg.pd1 < arg.pd2
    /\ arg.art.iso[arg.pd1] = 30000 /\ arg.art.iso[arg.pd2] = 70000
    /\ out.r1 = 30000 /\ out.r2 = arg.caps.max_rate_monthly
(***************************************************************************)
(* C14: the i_min of min_rate and the i_min of components both equal       *)
(* funding + opex + risk_component_monthly + margin_target raised to       *)
(* min_rate_monthly when that cap is configured, so neither is below the   *)
(* cap (as claimed; components reports the sum without the cap).           *)
(***************************************************************************)
C14_IMinRespectsCap ==
    (fn = "unit_economics" /\ applied) =>
        LET c == out.components
            total == c.funding + c.opex + c.risk_component_monthly + c.margin_target
            floor == IF arg.caps.has_min THEN Max2(total, arg.caps.min_rate_monthly)
                     ELSE total
        IN  /\ out.min_rate = floor
            /\ c.i_min = floor
            /\ arg.caps.has_min => c.i_min >= arg.caps.min_rate_monthly
(***************************************************************************)
(* C15: the scoring response holds unit_economics exactly when             *)
(* term_months was supplied (as claimed; the view never computes nor       *)
(* returns unit_economics or ok_to_lend).                                  *)
(***************************************************************************)
C15_UnitEconomicsReported ==
    (kind = "score" /\ risk.status = 200) =>
        ("unit_economics" \in ResultKeys(risk.result)) = req.has_term
(***************************************************************************)
(* C16: when build_features_for_borrower returns, the vector has exactly   *)
(* the 15 keys, and each holds the override's value when overrides has the *)
(* key with a value that is not null, and the computed value otherwise.    *)
(***************************************************************************)
C16_OverridesApplied ==
    [][(pc = "fb_assemble" /\ pc' = "sim_post") =>
          /\ DOMAIN features' = FEATURE_ORDER
          /\ \A k \in FEATURE_ORDER :
                features'[k] =
                    IF k \in DOMAIN req.overrides /\ ~req.overrides[k].null
                    THEN req.overrides[k].v
                    ELSE ComputedFeatures(up)[k]]_vars

\* the overrides held a null for idade and a key outside the 15: the vector
\* returned has the 15 keys and the computed idade
C16_Witness ==
    /\ pc = "sim_post"
    /\ req.overrides = OvNullAndForeign
    /\ DOMAIN features = FEATURE_ORDER
    /\ features["idade"] = 18
RECURSIVE SumOf(_, _)
\* the sum of field(s[i]) over the rows of s, here of the principal parts
SumOf(s, i) == IF i > Len(s) THEN 0 ELSE s[i].amortizacao + SumOf(s, i + 1)

Abs(v) == IF v < 0 THEN -v ELSE v

\* the schedule closes: the last closing balance is 0.00 and the principal
\* parts add up to the principal within half a cent a row
ScheduleCloses(pv, n, rows) ==
    /\ Len(rows) = n
    /\ rows[n].saldo_fim = 0
    /\ 2 * Abs(SumOf(rows, 1) - 100 * pv) <= n

SameFraction(a, b, c, d) ==
    /\ a \div Gcd(a, b) = c \div Gcd(c, d)
    /\ b \div Gcd(a, b) = d \div Gcd(c, d)

(***************************************************************************)
(* C19: pmt_price raises for n_months <= 0; for n_months >= 1 it returns   *)
(* pv / n at rate 0 and pv * r(1+r)^n / ((1+r)^n - 1) otherwise (from 54   *)
(* months on at 100 % a month, that value as the nearest float, pv * r).   *)
(***************************************************************************)
C19_PmtPrice ==
    (fn = "pmt_price" /\ applied) =>
        IF arg.n <= 0 THEN out.raised = "ValueError"
        ELSE /\ out.raised = "none"
             /\ out.den > 0
             /\ arg.r = 0 => SameFraction(out.num, out.den, arg.pv, arg.n)
             /\ (arg.r > 0 /\ arg.n <= MantissaBits) =>
                   SameFraction(out.num, out.den,
                                arg.pv * arg.r * Pow(1 + arg.r, arg.n),
                                Pow(1 + arg.r, arg.n) - 1)
             /\ (arg.r > 0 /\ arg.n > MantissaBits) =>
                   SameFraction(out.num, out.den, arg.pv * arg.r, 1)

\* a call with n_months = 0 raised, at rate 0 where the division would fail,
\* and a call at 200 % over 6 months returned pv * 1458 / 728
C19_Witness ==
    /\ fn = "pmt_price" /\ applied
    /\ \/ arg.n = 0 /\ arg.r = 0 /\ out.raised = "ValueError"
       \/ arg.n = 6 /\ arg.r = 2 /\ arg.pv = 1000 /\ out.raised = "none"
          /\ out.num = 1458000 /\ out.den = 728

\* the two probabilities are less than one score point of odds apart:
\* _k * ln(odds / O0) moves by 1 a score point, by 2 in halves
WithinOnePoint(p1, p2) == p1.k = "mid" /\ p2.k = "mid" /\ Abs(p1.x - p2.x) < 2

\* the score of the clamped probability before max(score_min, min(score_max, .))
\* lies within [score_min, score_max]
ScoreUnclamped(conf, pd) ==
    LET h == 2 * conf.S0 + pd_clip(conf, pd).x
    IN  2 * conf.score_min <= h /\ h <= 2 * conf.score_max

C18_RateRecovered ==
    (fn = "cet_from_flows" /\ applied /\ arg.n >= 1) =>
        (out.raised = "none" /\ out.kind \in {"newton_root", "bisection_root"})

\* months since year 0 of a calendar month
MonthIndex(ym) == 12 * ym.y + ym.m - 1

\* the transaction is dated in one of the six months that end with today's
InWindow(tx, today) ==
    /\ tx.has_date
    /\ MonthIndex(tx.ym) >= MonthIndex(today) - 5
    /\ MonthIndex(tx.ym) <= MonthIndex(today)

\* sum of sign(tx) * amount over the transactions of the list that satisfy
\* InWindow and are booked in month index k (any month when k = -1)
RECURSIVE WindowSum(_, _, _, _, _)
WindowSum(txs, i, today, k, debitSign) ==
    IF i > Len(txs) THEN 0
    ELSE (IF InWindow(txs[i], today) /\ (k = -1 \/ MonthIndex(txs[i].ym) = k)
          THEN (CASE txs[i].cdt = "CREDIT" -> txs[i].amount
                  [] txs[i].cdt = "DEBIT" -> debitSign * txs[i].amount
                  [] OTHER -> 0)
          ELSE 0)
         + WindowSum(txs, i + 1, today, k, debitSign)

(***************************************************************************)
(* C21: renda_media_6m is the sum of the credits dated in the six calendar *)
(* months ending with the current one, over 6, and pct_meses_saldo_neg_6m  *)
(* is the number of those six months whose credits minus debits are        *)
(* negative, over 6; other transactions are ignored and a month without    *)
(* transactions has net 0.                                                 *)
(***************************************************************************)
C21_IncomeStatistics ==
    (fn = "income_stats" /\ applied) =>
        /\ out.renda_media_6m.den = 6
        /\ out.renda_media_6m.num = WindowSum(arg.txs, 1, arg.today, -1, 0)
        /\ out.pct_meses_saldo_neg_6m.den = 6
        /\ out.pct_meses_saldo_neg_6m.num =
              Cardinality({k \in (MonthIndex(arg.today) - 5)..MonthIndex(arg.today) :
                              WindowSum(arg.txs, 1, arg.today, k, -1) < 0})

\* in February, credits of 1000 in December and 2000 in February and nothing
\* else: the mean is 3000 / 6 = 500 and no month is negative
C21_Witness ==
    /\ fn = "income_stats" /\ applied
    /\ arg.today = Month(2024, 2)
    /\ arg.txs = <<Tx(TRUE, Month(2023, 12), 1000, "CREDIT"),
                   Tx(TRUE, Month(2024, 2), 2000, "CREDIT")>>
    /\ out.renda_media_6m = [num |-> 3000, den |-> 6]
    /\ out.pct_meses_saldo_neg_6m.num = 0

\* the structure of the two phases: the loops' bounds, the iterates of the
\* Newton loop, and when the bisection and the expanded bracket are used
TwoPhases ==
    /\ out.k <= MaxIter /\ out.j <= BisectIter
    /\ (out.phase = "newton" /\ out.k > 0) => (out.r > 0 /\ out.r < GridSize)
    /\ out.ret = "newton" => (out.j = 0 /\ out.b = 0 /\ WithinTol(arg, out.value))
    /\ out.phase = "bisect" => out.ret = "none"
    /\ out.expanded => NpvSignAt(arg, 0) * NpvSignAt(arg, GridSize) > 0

(***************************************************************************)
(* C22, as claimed: irr_newton_bisection always returns, after at most 100 *)
(* Newton passes that never go on from a non-finite iterate or one outside *)
(* (-0.9999, 1.0), and at most 200 bisection passes entered only when the  *)
(* Newton loop ended without the residual, on the expanded bracket only    *)
(* when the first shows no sign change (refuted: on 81 or more             *)
(* installments the fallback raises ZeroDivisionError).                    *)
(***************************************************************************)
C22_TwoPhasesAlwaysReturn ==
    fn = "irr_newton_bisection" =>
        /\ TwoPhases
        /\ out.phase # "raised"
        /\ applied => out.phase = "returned"

\* the bisection interval of a state of the solver
InsideBracket(o) ==
    /\ 0 <= o.a /\ o.a <= o.b
    /\ o.b <= (IF o.expanded THEN 2 * GridSize ELSE GridSize)

C23_PrincipalWithinBalance ==
    (fn = "amortization_schedule" /\ applied /\ out.raised = "none") =>
        \A i \in 1..Len(out.rows) :
            /\ out.rows[i].amort <= out.rows[i].saldo
            /\ out.rows[i].saldo >= 0
            /\ out.rows[i].saldo - out.rows[i].amort >= 0

\* the days past due the specification gives one installment, -1 when it
\* does not qualify
SpecDpd(inst, today) ==
    IF ~inst.has_due \/ inst.due < today - YearDays THEN -1
    ELSE IF inst.status = "PAID"
    THEN (IF inst.has_pay THEN Max2(0, inst.pay - inst.due) ELSE -1)
    ELSE (IF inst.due < today THEN today - inst.due ELSE -1)

(***************************************************************************)
(* C24, as claimed: DPD_max_12m is the maximum, over the installments due  *)
(* within the last 12 months, of max(0, payment - due) when paid with a    *)
(* payment record and of today - due when unpaid and past due; any other   *)
(* installment contributes nothing and the result is 0 when none qualifies *)
(* (refuted: a paid installment without a payment record is counted as     *)
(* overdue, and an installment without an amount is left out).             *)
(***************************************************************************)
C24_DpdMax ==
    (fn = "DPD_max_12m" /\ applied) =>
        /\ out.dpd >= 0
        /\ \A i \in 1..Len(arg.insts) : SpecDpd(arg.insts[i], arg.today) <= out.dpd
        /\ out.dpd > 0 =>
              \E i \in 1..Len(arg.insts) : SpecDpd(arg.insts[i], arg.today) = out.dpd

\* the band is the configured one with the greatest min that is <= score,
\* or E when the score is below every min
GreatestBandBelow(bands, score, b) ==
    IF \A x \in DOMAIN bands : bands[x] > score THEN b = "E"
    ELSE /\ b \in DOMAIN bands
         /\ bands[b] <= score
         /\ \A x \in DOMAIN bands : bands[x] <= score => bands[x] <= bands[b]

\* the min the band was returned for; below every min for the fallback
ThresholdOf(bands, score, b) ==
    IF \A x \in DOMAIN bands : bands[x] > score THEN -1 ELSE bands[b]

(***************************************************************************)
(* C25: band_of(score) is the configured band with the greatest min that   *)
(* is <= score, and E when the score is below every min; a higher score    *)
(* never gets a band with a lower min.                                     *)
(***************************************************************************)
C25_BandOf ==
    (fn = "band_of" /\ applied) =>
        /\ GreatestBandBelow(arg.bands, arg.s1, out.b1)
        /\ GreatestBandBelow(arg.bands, arg.s2, out.b2)
        /\ arg.s1 <= arg.s2 =>
              ThresholdOf(arg.bands, arg.s1, out.b1)
                  <= ThresholdOf(arg.bands, arg.s2, out.b2)

\* 505 is below every min of a table without E and 640 reaches its A
C25_Witness ==
    /\ fn = "band_of" /\ applied
    /\ "E" \notin DOMAIN arg.bands /\ arg.bands["A"] = 640
    /\ arg.s1 = 505 /\ out.b1 = "E"
    /\ arg.s2 = 640 /\ out.b2 = "A"

(***************************************************************************)
(* C27, as claimed: a simulation request that does not end with 201 leaves *)
(* no new LoanOffer (refuted: the offer is created before the eligibility  *)
(* rules are applied and stays when they reject the request).              *)
(***************************************************************************)
C27_OfferOnlyOnSuccess ==
    (kind = "simulation" /\ pc = "done" /\ resp.status # 201) => offers = 0

\* the user may open the offer: staff, or the borrower the offer belongs to
MayOpen(u, o) == u.is_staff \/ (u.email # "" /\ OfferOwner[o] = u.email)

(***************************************************************************)
(* C26, as claimed: api_register_offer opens an offer only for staff or    *)
(* for the borrower who owns it; for any other logged-in user the status   *)
(* is unchanged and the response is 403 (refuted: the test asks whether    *)
(* the user is the borrower of any offer, not of this one).                *)
(***************************************************************************)
C26_OnlyOwnerOrStaffOpens ==
    (lastCall.offer \in OfferIds /\ ~MayOpen(lastCall.user, lastCall.offer)) =>
        (lastCall.code = 403 /\ ~lastCall.changed)

\* the steps a getter makes inside `with self._lock:`
InsideLock == {"check2", "load", "store", "release"}

(***************************************************************************)
(* C28: when a load raises, the error reaches the caller (the call ends    *)
(* without a returned object), the lock is free again (it is held only by  *)
(* a thread inside the with block, so no later call is blocked by a failed *)
(* one), and the slot is filled only by the object of a load that          *)
(* succeeded: a call that finds it empty loads again, and a call that      *)
(* returns never gets None or a partial object.                            *)
(***************************************************************************)
C28_FailedLoadLeavesNothing ==
    /\ lock # None => rpc[lock] \in InsideLock
    /\ \A t \in Threads :
        /\ raisedTo[t] => (rpc[t] = "idle" /\ got[t] = NoReturn /\ lock # t)
        /\ rpc[t] = "load" => (lock = t /\ slot[rres[t]] = None)
        /\ got[t] # NoReturn => got[t][2] \in 1..loadsOk[got[t][1]]
    /\ \A r \in Resources : slot[r] # None => slot[r] \in 1..loadsOk[r]

\* a load of the pricing wrapper raised; a later call of get_pricing loaded
\* it and returned it, and a call of another getter holds the lock and is
\* loading
C28_Witness ==
    /\ loadsFailed["pricing"] = 1
    /\ \E t \in Threads : got[t] = <<"pricing", 1>>
    /\ \E u \in Threads : rpc[u] = "load" /\ rres[u] = "scorecard" /\ lock = u

(***************************************************************************)
(* C30, as claimed: with well-formed upstream responses                    *)
(* build_features_for_borrower returns a feature vector on every current   *)
(* date, 29 February and the first months of a year included (refuted:     *)
(* the start of the twelve-month window is the same day one year before,   *)
(* which does not exist for 29 February).                                  *)
(***************************************************************************)
C30_VectorOnEveryDate ==
    (fn = "window_dates" /\ applied) =>
        /\ out.returns = "features"
        /\ Len(out.months6) = 6
        /\ \A i \in 1..6 : out.months6[i].m \in 1..12
====
